---- MODULE Spec2Model ----
(***************************************************************************)
(* Model of the conversation orchestration of the Brainteaser-of-the-Day   *)
(* bot: LLM (src/src/llm.ts: per-thread operation queue and the Run        *)
(* driver), Bot (src/unnamed/part_001: channel -> thread map, addMessage,  *)
(* response) and the event handlers of DiscordInterface                    *)
(* (src/src/discord_interface.ts).                                         *)
(*                                                                         *)
(* Execution model.  The program runs on one JavaScript event loop.  A     *)
(* step of the model is either                                             *)
(*   - a macrotask: an inbound event or the completion of a network call,  *)
(*     database call or timer, enabled only when the microtask queue mq is *)
(*     empty; it runs the code up to the next suspension and appends the   *)
(*     promise reactions it caused to mq; or                               *)
(*   - a microtask: the head of mq, run to its next suspension.            *)
(* Promise reactions therefore run in FIFO order, as in ECMAScript, and    *)
(* completions of external calls interleave freely.                        *)
(***************************************************************************)
EXTENDS Integers, Sequences, FiniteSets, TLC

\* ------------------------------------------------------------------ bounds
MaxHandlers == 2   \* inbound events (handler activations) in one behaviour
MaxPolls    == 1   \* polls of one behaviour that observe queued / in_progress
MaxCycles   == 1   \* polls of one behaviour that observe requires_action
MaxCalls    == 2   \* tool calls requested in one requires_action cycle
MaxFaults   == 1   \* external calls of one behaviour that fail
MaxHist     == 2   \* messages one fetch of a channel's history returns
MaxUnused   == 1   \* brainteasers not yet used for a Brainteaser of the Day

\* --------------------------------------------------------------- constants
Chan == {"c1", "c2"}                \* guild channels known to the gateway
DMChan == {"d1"}                    \* direct-message channels
AllChan == Chan \cup DMChan
H    == 1 .. MaxHandlers            \* handler activations
Teaser == 1 .. MaxUnused            \* ids of the rows of brainteasers
\* A thread handle is the id of the activation whose createThread call
\* returned it; 0 is the absent handle (threadIds[chatId] === undefined).
Key  == 0 .. MaxHandlers

VARIABLES
    threadIds,          \* Bot.threadIds
    subscriberChannels, \* DiscordInterface.subscriberChannels
    operationQueue,     \* LLM.operationQueue
    processingPromise,  \* LLM.processingPromise: "null" | "pending" | "fulfilled"
    workers,            \* per key: drain loops (llm.ts:29-40) not yet returned
    tasks,              \* per activation: the handler's position and locals
    ops,                \* per activation: its queued operation
    thread,             \* remote service: the messages of each thread
    mq,                 \* the microtask queue
    enq,                \* per key: operations pushed so far
    nh,                 \* activations started so far
    polls, cycles, faults,  \* budget counters of the bounds above
    activeDMChannels,   \* DiscordInterface.activeDMChannels
    broadcast,          \* per activation: its Brainteaser-of-the-Day broadcast
    db                  \* database: brainteasers, botd rows, subscribed flags

vars == << threadIds, subscriberChannels, operationQueue, processingPromise,
           workers, tasks, ops, thread, mq, enq, nh,
           polls, cycles, faults, activeDMChannels, broadcast, db >>

\* ------------------------------------------------------------ record shapes
NoTask == [kind |-> "none", chan |-> "-", fromMe |-> FALSE, pc |-> "-", thr |-> 0,
           alloc |-> FALSE, phase |-> "own", hist |-> 0, left |-> 0,
           pick |-> 0, row |-> 0]
\* No broadcast: nothing selected, no channel fetched.
NoBroadcast == [st |-> "idle", snap |-> << >>, fetched |-> {}, text |-> "none"]
\* The database after earlier runs of the process: of the brainteasers the
\* first u are unused (used_for_botd IS NULL), each of the others is the
\* brainteaser of one row of botd and carries the id of that row; the
\* channel c1 has its subscribed flag set.
Db(u) == [used |-> [t \in Teaser |-> IF t <= u THEN 0 ELSE t - u],
          botd |-> [i \in 1 .. MaxUnused - u |-> u + i],
          sub  |-> {"c1"}]
NoVal  == [src |-> "none", h |-> 0, type |-> "none", role |-> "none"]
NoRes  == [ok |-> "none", val |-> NoVal, err |-> "none"]
NoOp   == [kind |-> "none", st |-> "idle", key |-> 0, eno |-> 0, pc |-> "-",
           status |-> "none", unknownTool |-> FALSE, calls |-> << >>, results |-> << >>,
           batch |-> << >>, invoked |-> << >>, res |-> NoRes]

Microtask(t, x) == [t |-> t, x |-> x]

\* Array.prototype.includes on subscriberChannels
Includes(arr, c) == \E i \in 1 .. Len(arr) : arr[i] = c

\* ------------------------------------------------------------------- Init
\* The state after construction and the 'ready' handler
\* (intializeSubscribers) for a database that lists channel c1 as subscribed
\* and a channel without history: no thread has been allocated.
InitBot ==
    /\ threadIds = [c \in AllChan |-> 0]
    /\ subscriberChannels = << "c1" >>
    /\ operationQueue = [k \in Key |-> << >>]
    /\ processingPromise = [k \in Key |-> "null"]
    /\ workers = [k \in Key |-> 0]
    /\ ops = [h \in H |-> NoOp]
    /\ thread = [k \in Key |-> << >>]
    /\ mq = << >>
    /\ enq = [k \in Key |-> 0]
    /\ faults = 0
    /\ activeDMChannels = << >>
    /\ broadcast = [h \in H |-> NoBroadcast]

\* Behaviours of Spec: any MaxHandlers events; every Run is observed in a
\* final status by its first poll (the budgets of transient and
\* requires_action observations are spent).
Init ==
    /\ InitBot
    /\ tasks = [h \in H |-> NoTask]
    /\ nh = 0
    /\ polls = MaxPolls
    /\ cycles = MaxCycles
    /\ db = Db(MaxUnused)

\* Behaviours of SpecDriver: one event is still to come, after
\* MaxHandlers - 1 messages of the unsubscribed channel c2 were ignored
\* (discord_interface.ts:237); its Run may take every path of the driver.
IgnoredTask == [NoTask EXCEPT !.kind = "msg", !.chan = "c2", !.pc = "ignored"]
InitDriver ==
    /\ InitBot
    /\ tasks = [h \in H |-> IF h < MaxHandlers THEN IgnoredTask ELSE NoTask]
    /\ nh = MaxHandlers - 1
    /\ polls = 0
    /\ cycles = 0
    /\ db = Db(MaxUnused)

\* ------------------------------------------------- LLM: the operation queue
\* The first external call of a queued operation: the wrapper of
\* enqueueOperation calls operation(), which runs to its first await.
Begin(op) ==
    [op EXCEPT !.st = "exec",
               !.pc = IF op.kind = "add" THEN "messages.create" ELSE "runs.create"]

\* Mutants of StartsWorker: the guard of llm.ts:22 dropped; the guard
\* replaced by a test of the list.
StartsWorkerAlways(k) == TRUE
StartsWorkerIfEmpty(k) == operationQueue[k] = << >>

\* Mutant of StartsWorker: one processing promise for all keys.
StartsWorkerGlobal(k) == \A j \in Key : processingPromise[j] = "null"

\* processQueue, at the call of enqueueOperation: TRUE iff it starts a drain
\* loop (llm.ts:22 finds no processing promise).
StartsWorker(k) == processingPromise[k] = "null"

\* Mutant of Enqueue: the handle of the started drain loop is not kept
\* (llm.ts:26 without the assignment).
EnqueueForgetsHandle(h, k, kind) ==
    LET q     == Append(operationQueue[k], h)
        first == Head(q)
        new   == [NoOp EXCEPT !.kind = kind, !.st = "queued", !.key = k,
                              !.eno = enq[k] + 1]
    IN  /\ enq' = [enq EXCEPT ![k] = @ + 1]
        /\ operationQueue' = [operationQueue EXCEPT ![k] = Tail(q)]
        /\ workers' = [workers EXCEPT ![k] = @ + 1]
        /\ ops' = [ops EXCEPT ![h] = new, ![first] = Begin(@)]
        /\ UNCHANGED processingPromise

\* enqueueOperation(k, operation) called by activation h: push the wrapper,
\* then processQueue(k).  With no processing promise the drain loop starts
\* synchronously: it shifts the head of the list and calls it.
Enqueue(h, k, kind) ==
    LET q     == Append(operationQueue[k], h)
        first == Head(q)
        new   == [NoOp EXCEPT !.kind = kind, !.st = "queued", !.key = k,
                              !.eno = enq[k] + 1]
    IN  /\ enq' = [enq EXCEPT ![k] = @ + 1]
        /\ IF StartsWorker(k)
           THEN /\ operationQueue' = [operationQueue EXCEPT ![k] = Tail(q)]
                /\ processingPromise' = [processingPromise EXCEPT ![k] = "pending"]
                /\ workers' = [workers EXCEPT ![k] = @ + 1]
                /\ ops' = [ops EXCEPT ![h] = new, ![first] = Begin(@)]
           ELSE /\ operationQueue' = [operationQueue EXCEPT ![k] = q]
                /\ ops' = [ops EXCEPT ![h] = new]
                /\ UNCHANGED << processingPromise, workers >>

\* The operation of key k that has settled and whose caller has not resumed
\* yet failed.
JustFailed(k) ==
    \E h \in H : ops[h].st = "done" /\ ops[h].key = k /\ ops[h].res.ok = "no"

\* Mutants of LoopContinues: `if` for `while`; no try/catch around the
\* awaited operation (llm.ts:33-37).
LoopOnce(k) == FALSE
LoopStopsOnFailure(k) == operationQueue[k] # << >> /\ ~ JustFailed(k)

\* Mutant of LoopContinues: the rejection of a Run ends the drain loop.
LoopStopsAfterRunFailure(k) ==
    /\ operationQueue[k] # << >>
    /\ ~ \E h \in H : /\ ops[h].st = "done" /\ ops[h].key = k
                       /\ ops[h].kind = "run" /\ ops[h].res.ok = "no"

\* The condition of the drain loop (llm.ts:30), evaluated again after the
\* try/catch around the awaited operation.
LoopContinues(k) == operationQueue[k] # << >>

\* Mutant of DrainStep: the drain loop runs an operation that failed again
\* instead of going on.
DrainStepRetrying(k) ==
    /\ mq # << >>
    /\ Head(mq) = Microtask("iife", k)
    /\ IF JustFailed(k)
       THEN LET failed == CHOOSE h \in H : /\ ops[h].st = "done" /\ ops[h].key = k
                                            /\ ops[h].res.ok = "no" IN
            /\ ops' = [ops EXCEPT ![failed] = Begin(@)]
            /\ mq' = Tail(mq)
            /\ UNCHANGED << operationQueue, processingPromise, workers >>
       ELSE IF LoopContinues(k)
       THEN LET first == Head(operationQueue[k]) IN
            /\ operationQueue' = [operationQueue EXCEPT ![k] = Tail(@)]
            /\ ops' = [ops EXCEPT ![first] = Begin(@)]
            /\ mq' = Tail(mq)
            /\ UNCHANGED << processingPromise, workers >>
       ELSE /\ workers' = [workers EXCEPT ![k] = @ - 1]
            /\ processingPromise' = [processingPromise EXCEPT ![k] = "fulfilled"]
            /\ mq' = Append(Tail(mq), Microtask("clear", k))
            /\ UNCHANGED << operationQueue, ops >>
    /\ UNCHANGED << threadIds, subscriberChannels, tasks, thread, nh, polls,
                    cycles, faults, enq, activeDMChannels, broadcast, db >>

\* The drain loop resumes after `await operation()` (llm.ts:30-39): it runs
\* the next operation, or returns, which fulfils the processing promise and
\* schedules the continuation of processQueue (llm.ts:43-46).
DrainStep(k) ==
    /\ mq # << >>
    /\ Head(mq) = Microtask("iife", k)
    /\ IF LoopContinues(k)
       THEN LET first == Head(operationQueue[k]) IN
            /\ operationQueue' = [operationQueue EXCEPT ![k] = Tail(@)]
            /\ ops' = [ops EXCEPT ![first] = Begin(@)]
            /\ mq' = Tail(mq)
            /\ UNCHANGED << processingPromise, workers >>
       ELSE /\ workers' = [workers EXCEPT ![k] = @ - 1]
            /\ processingPromise' = [processingPromise EXCEPT ![k] = "fulfilled"]
            /\ mq' = Append(Tail(mq), Microtask("clear", k))
            /\ UNCHANGED << operationQueue, ops >>
    /\ UNCHANGED << threadIds, subscriberChannels, tasks, thread, nh, polls,
                    cycles, faults, enq, activeDMChannels, broadcast, db >>

\* processQueue after `await this.processingPromise[threadId]` (llm.ts:46).
ClearProcessing(k) ==
    /\ mq # << >>
    /\ Head(mq) = Microtask("clear", k)
    /\ processingPromise' = [processingPromise EXCEPT ![k] = "null"]
    /\ mq' = Tail(mq)
    /\ UNCHANGED << threadIds, subscriberChannels, operationQueue, workers,
                    tasks, ops, thread, nh, polls, cycles, faults, enq,
                    activeDMChannels, broadcast, db >>

\* The wrapper of enqueueOperation (llm.ts:54-61) after operation() settled:
\* it resolves or rejects the caller's promise and returns, which resumes
\* the drain loop.  Runs in the completion of the operation's last external
\* call, so the microtask queue holds exactly these two reactions.
Settled(h, res, status) ==
    /\ ops' = [ops EXCEPT ![h] = [@ EXCEPT !.st = "done", !.pc = "-", !.res = res,
                                            !.status = status,
                                            !.calls = << >>, !.results = << >>,
                                            !.batch = << >>, !.invoked = << >>]]
    /\ mq' = << Microtask("r1", h), Microtask("iife", ops[h].key) >>

\* A failed external call consumes one unit of the fault budget.
Fault == /\ faults < MaxFaults
         /\ faults' = faults + 1

OkRes(val)   == [ok |-> "yes", val |-> val, err |-> "none"]
ErrRes(err)  == [ok |-> "no", val |-> NoVal, err |-> err]

\* ----------------------------------------------------- Bot: thread handles
\* Bot.getThreadId, up to its suspension: the cached handle, or a call of
\* createThread.  Called from Bot.addMessage by activation h for channel c.
GetThreadId(h, c, task) ==
    IF threadIds[c] # 0
    THEN /\ tasks' = [tasks EXCEPT ![h] = [task EXCEPT !.pc = "g", !.thr = threadIds[c]]]
         /\ mq' = Append(mq, Microtask("g", h))
    ELSE /\ tasks' = [tasks EXCEPT ![h] = [task EXCEPT !.pc = "createThread",
                                                       !.alloc = TRUE]]
         /\ UNCHANGED mq

\* createThread returned: getThreadId stores the handle (part_001:282) and
\* Bot.addMessage resumes with it.
CreateThreadDone(h) ==
    /\ mq = << >>
    /\ tasks[h].pc = "createThread"
    /\ threadIds' = [threadIds EXCEPT ![tasks[h].chan] = h]
    /\ tasks' = [tasks EXCEPT ![h] = [@ EXCEPT !.pc = "g", !.thr = h]]
    /\ mq' = << Microtask("g", h) >>
    /\ UNCHANGED << subscriberChannels, operationQueue, processingPromise,
                    workers, ops, thread, nh, polls, cycles, faults, enq,
                    activeDMChannels, broadcast, db >>

\* Mutant of CreateThreadFail: the failed attempt leaves a handle in the map.
CreateThreadFailStores(h) ==
    /\ mq = << >>
    /\ tasks[h].pc = "createThread"
    /\ Fault
    /\ threadIds' = [threadIds EXCEPT ![tasks[h].chan] = h]
    /\ tasks' = [tasks EXCEPT ![h] = [@ EXCEPT !.pc = "rejected"]]
    /\ UNCHANGED << subscriberChannels, operationQueue,
                    processingPromise, workers, ops, thread, mq, nh, polls,
                    cycles, enq, activeDMChannels, broadcast, db >>

\* createThread failed: getThreadId, Bot.addMessage and the handler reject.
CreateThreadFail(h) ==
    /\ mq = << >>
    /\ tasks[h].pc = "createThread"
    /\ Fault
    /\ tasks' = [tasks EXCEPT ![h] = [@ EXCEPT !.pc = "rejected"]]
    /\ UNCHANGED << threadIds, subscriberChannels, operationQueue,
                    processingPromise, workers, ops, thread, mq, nh, polls,
                    cycles, enq, activeDMChannels, broadcast, db >>

\* Bot.addMessage after `await this.getThreadId(chatId)`: LLM.addMessage
\* enqueues the append (llm.ts:71-75).
AddMessageEnqueue(h) ==
    /\ mq # << >>
    /\ Head(mq) = Microtask("g", h)
    /\ Enqueue(h, tasks[h].thr, "add")
    /\ tasks' = [tasks EXCEPT ![h] = [@ EXCEPT !.pc = "add"]]
    /\ mq' = Tail(mq)
    /\ UNCHANGED << threadIds, subscriberChannels, thread, nh, polls,
                    cycles, faults, activeDMChannels, broadcast, db >>

\* channel.messages.fetch({ limit }) returned n messages
\* (discord_interface.ts:339-340): the service lists them newest first.  A
\* message is named by its age rank, 1 for the oldest.
Fetched(n) == [i \in 1 .. n |-> n - i + 1]

\* Array.prototype.reverse
Reverse(arr) == [i \in 1 .. Len(arr) |-> arr[Len(arr) - i + 1]]

\* Mutant of ReplayOrder: the fetched messages are replayed as returned.
ReplayOrderAsFetched(n) == Fetched(n)

\* The order in which a history of n messages is replayed:
\* `for (const message of messages.reverse())` (367, 379).
ReplayOrder(n) == Reverse(Fetched(n))

\* The role Bot.addMessage gives a message (291).
RoleAlwaysUser(fromMe) == "user"
Role(fromMe) == IF fromMe THEN "assistant" ELSE "user"

\* The messages of a history alternate between a user and the bot, the
\* oldest one being a user's.
HistFromMe(j) == j % 2 = 0

\* The message of the event of activation h.
Own(h) == [src |-> "chat", h |-> h, type |-> "text", role |-> Role(tasks[h].fromMe)]

\* A message sent to the channel before the process started, of age rank j,
\* 1 for the oldest.
Hist(j) == [src |-> "hist", h |-> j, type |-> "text", role |-> Role(HistFromMe(j))]

\* The message of age rank r among those fetched by activation h.  A
\* 'messageCreate' handler fetches the channel after the message of its
\* event was sent (236, 251, 378), so that message is the newest of the
\* fetched ones; startup fetches before any event.
Item(h, r) ==
    IF tasks[h].kind = "msg" /\ r = tasks[h].hist THEN Own(h) ELSE Hist(r)

\* The message activation h is appending: the message of its event, or,
\* while it replays a history (addMessageToBotThread), the next message of
\* the replay order.
Appended(h) ==
    IF tasks[h].phase = "replay"
    THEN Item(h, ReplayOrder(tasks[h].hist)[tasks[h].hist - tasks[h].left + 1])
    ELSE Own(h)

\* The append operation: client.beta.threads.messages.create returned.
MessagesCreateDone(h) ==
    /\ mq = << >>
    /\ ops[h].st = "exec"
    /\ ops[h].pc = "messages.create"
    /\ thread' = [thread EXCEPT ![ops[h].key] = Append(@, Appended(h))]
    /\ Settled(h, OkRes(NoVal), ops[h].status)
    /\ UNCHANGED << threadIds, subscriberChannels, operationQueue,
                    processingPromise, workers, tasks, nh, polls, cycles,
                    faults, enq, activeDMChannels, broadcast, db >>

MessagesCreateFail(h) ==
    /\ mq = << >>
    /\ ops[h].st = "exec"
    /\ ops[h].pc = "messages.create"
    /\ Fault
    /\ Settled(h, ErrRes("network"), ops[h].status)
    /\ UNCHANGED << threadIds, subscriberChannels, operationQueue,
                    processingPromise, workers, tasks, thread, nh, polls,
                    cycles, enq, activeDMChannels, broadcast, db >>

\* The promise of the async LLM.addMessage / LLM.runAssistant adopts the
\* settled promise of enqueueOperation.
ResolveCaller(h) ==
    /\ mq # << >>
    /\ Head(mq) = Microtask("r1", h)
    /\ mq' = Append(Tail(mq), Microtask("b", h))
    /\ UNCHANGED << threadIds, subscriberChannels, operationQueue,
                    processingPromise, workers, tasks, ops, thread, nh,
                    polls, cycles, faults, enq, activeDMChannels, broadcast,
                    db >>

\* Bot.addMessage after `await this.llm.addMessage(...)` (part_001:288), or
\* the `.then(response => JSON.parse(response))` of Bot.response
\* (part_001:311): neither calls the LLM; the caller is resumed next.
BotContinue(h) ==
    /\ mq # << >>
    /\ Head(mq) = Microtask("b", h)
    /\ mq' = Append(Tail(mq), Microtask("c", h))
    /\ UNCHANGED << threadIds, subscriberChannels, operationQueue,
                    processingPromise, workers, tasks, ops, thread, nh,
                    polls, cycles, faults, enq, activeDMChannels, broadcast,
                    db >>

\* Bot.response up to `await this.assistants[assistantName]`: the thread
\* argument this.threadIds[chatId] is read before the suspension.
Response(h, task) ==
    /\ tasks' = [tasks EXCEPT ![h] = [task EXCEPT !.pc = "d",
                                                   !.thr = threadIds[task.chan]]]
    /\ mq' = Append(Tail(mq), Microtask("d", h))

\* Bot.response after the await: LLM.runAssistant enqueues the Run.
ResponseEnqueue(h) ==
    /\ mq # << >>
    /\ Head(mq) = Microtask("d", h)
    /\ Enqueue(h, tasks[h].thr, "run")
    /\ tasks' = [tasks EXCEPT ![h] = [@ EXCEPT !.pc = "run"]]
    /\ mq' = Tail(mq)
    /\ UNCHANGED << threadIds, subscriberChannels, thread, nh, polls,
                    cycles, faults, activeDMChannels, broadcast, db >>

\* The caller has consumed the outcome of its operation: the closure and its
\* result are garbage.  What remains is the remote Run, if one was created
\* and has not ended, on its thread.
Ended == {"completed", "failed", "incomplete", "cancelled"}
Released(op) ==
    IF op.status \in Ended \cup {"none"} THEN NoOp
    ELSE [NoOp EXCEPT !.key = op.key, !.status = op.status]

\* --------------------------------------------- DiscordInterface: handlers
\* 'messageCreate' (discord_interface.ts:236-248): a message of a
\* direct-message channel or of a subscribed guild channel is appended.
MessageCreate(c, fromMe) ==
    /\ mq = << >>
    /\ nh < MaxHandlers
    /\ nh' = nh + 1
    /\ LET h == nh + 1
           task == [NoTask EXCEPT !.kind = "msg", !.chan = c, !.fromMe = fromMe]
       IN  IF c \in DMChan \/ Includes(subscriberChannels, c)
           THEN GetThreadId(h, c, task)
           ELSE /\ tasks' = [tasks EXCEPT ![h] = [task EXCEPT !.pc = "ignored"]]
                /\ UNCHANGED mq
    /\ UNCHANGED << threadIds, subscriberChannels, operationQueue,
                    processingPromise, workers, ops, thread, polls, cycles,
                    faults, enq, activeDMChannels, broadcast, db >>

\* Mutant of IsActive: the test of activateDMChannel dropped.
NeverActive(c) == FALSE

\* activateDMChannel, the test of discord_interface.ts:374.
IsActive(c) == Includes(activeDMChannels, c)

\* Mutant of AppendFailed: the rejection of bot.addMessage is swallowed.
AppendFailedIgnored(h) == FALSE

\* `await this.bot.addMessage(...)` (discord_interface.ts:239-248) rejects:
\* the handler has no try/catch, so it ends there.
AppendFailed(h) == ops[h].res.ok = "no"

\* 'messageCreate' after `await this.bot.addMessage(...)`
\* (discord_interface.ts:249-269).  For a direct message of a user
\* activateDMChannel is called (251): it returns at once for an activated
\* channel, and fetches the history of the channel otherwise (378).
AfterAppend(h) ==
    /\ mq # << >>
    /\ Head(mq) = Microtask("c", h)
    /\ tasks[h].pc = "add"
    /\ tasks[h].phase = "own"
    /\ IF AppendFailed(h)
       THEN /\ tasks' = [tasks EXCEPT ![h] = [@ EXCEPT !.pc = "rejected"]]
            /\ mq' = Tail(mq)
       ELSE IF ~ tasks[h].fromMe /\ tasks[h].chan \in DMChan
       THEN IF IsActive(tasks[h].chan)
            THEN Response(h, [tasks[h] EXCEPT !.phase = "after"])
            ELSE /\ tasks' = [tasks EXCEPT ![h] = [@ EXCEPT !.pc = "history"]]
                 /\ mq' = Tail(mq)
       ELSE IF ~ tasks[h].fromMe /\ Includes(subscriberChannels, tasks[h].chan)
       THEN Response(h, tasks[h])
       ELSE /\ tasks' = [tasks EXCEPT ![h] = [@ EXCEPT !.pc = "done"]]
            /\ mq' = Tail(mq)
    /\ ops' = [ops EXCEPT ![h] = Released(@)]
    /\ UNCHANGED << threadIds, subscriberChannels, operationQueue,
                    processingPromise, workers, thread, nh, polls, cycles,
                    faults, enq, activeDMChannels, broadcast, db >>

\* activateDMChannel after `await this.getLastMessages(channelId)` (378-382)
\* returned n messages; none when the fetch failed (344-347).  With no
\* message the channel is recorded and the handler goes on to the response
\* (252-253); otherwise the first message of the replay order is appended.
\* intializeSubscribers does the same for a subscribed channel (366-369),
\* and has nothing to record and no response to request.
HistoryFetched(h, n) ==
    /\ mq = << >>
    /\ tasks[h].pc = "history"
    /\ IF n = 0 /\ tasks[h].kind = "init"
       THEN /\ tasks' = [tasks EXCEPT ![h] = [@ EXCEPT !.pc = "done"]]
            /\ UNCHANGED << mq, activeDMChannels >>
       ELSE IF n = 0
       THEN /\ activeDMChannels' = Append(activeDMChannels, tasks[h].chan)
            /\ tasks' = [tasks EXCEPT ![h] =
                            [@ EXCEPT !.pc = "d", !.phase = "after",
                                      !.thr = threadIds[tasks[h].chan]]]
            /\ mq' = << Microtask("d", h) >>
       ELSE /\ GetThreadId(h, tasks[h].chan,
                           [tasks[h] EXCEPT !.phase = "replay", !.hist = n, !.left = n])
            /\ UNCHANGED activeDMChannels
    /\ UNCHANGED << threadIds, subscriberChannels, operationQueue,
                    processingPromise, workers, ops, thread, nh, polls,
                    cycles, faults, enq, broadcast, db >>

\* activateDMChannel after `await this.addMessageToBotThread(...)` (379-385):
\* a failed append is caught and logged, the channel is not recorded; after
\* the last message the channel is pushed to activeDMChannels; then the
\* handler goes on to the response (252-253).  intializeSubscribers
\* (367-369) has no try/catch: a failed append rejects it and the 'ready'
\* handler; after the last message it returns.
\* The fetch of the channel's messages fails: getLastMessages logs the
\* error and returns the empty list (345-347), so the caller goes on as with
\* an empty history.
HistoryFetchFail(h) ==
    /\ mq = << >>
    /\ tasks[h].pc = "history"
    /\ Fault
    /\ IF tasks[h].kind = "init"
       THEN /\ tasks' = [tasks EXCEPT ![h] = [@ EXCEPT !.pc = "done"]]
            /\ UNCHANGED << mq, activeDMChannels >>
       ELSE /\ activeDMChannels' = Append(activeDMChannels, tasks[h].chan)
            /\ tasks' = [tasks EXCEPT ![h] =
                            [@ EXCEPT !.pc = "d", !.phase = "after",
                                      !.thr = threadIds[tasks[h].chan]]]
            /\ mq' = << Microtask("d", h) >>
    /\ UNCHANGED << threadIds, subscriberChannels, operationQueue,
                    processingPromise, workers, ops, thread, nh, polls,
                    cycles, enq, broadcast, db >>

AfterReplayAppend(h) ==
    /\ mq # << >>
    /\ Head(mq) = Microtask("c", h)
    /\ tasks[h].pc = "add"
    /\ tasks[h].phase = "replay"
    /\ LET t == tasks[h]
           c == tasks[h].chan
           after == [t EXCEPT !.phase = "after", !.hist = 0, !.left = 0]
       IN  IF ops[h].res.ok = "no" /\ t.kind = "init"
           THEN /\ tasks' = [tasks EXCEPT ![h] = [t EXCEPT !.pc = "rejected"]]
                /\ mq' = Tail(mq)
                /\ UNCHANGED activeDMChannels
           ELSE IF ops[h].res.ok = "no"
           THEN /\ Response(h, after)
                /\ UNCHANGED activeDMChannels
           ELSE IF t.left > 1
           THEN /\ IF threadIds[c] # 0
                   THEN /\ tasks' = [tasks EXCEPT ![h] =
                                        [t EXCEPT !.pc = "g", !.thr = threadIds[c],
                                                  !.left = @ - 1]]
                        /\ mq' = Append(Tail(mq), Microtask("g", h))
                   ELSE /\ tasks' = [tasks EXCEPT ![h] =
                                        [t EXCEPT !.pc = "createThread",
                                                  !.alloc = TRUE, !.left = @ - 1]]
                        /\ mq' = Tail(mq)
                /\ UNCHANGED activeDMChannels
           ELSE IF t.kind = "init"
           THEN /\ tasks' = [tasks EXCEPT ![h] = [after EXCEPT !.pc = "done"]]
                /\ mq' = Tail(mq)
                /\ UNCHANGED activeDMChannels
           ELSE /\ activeDMChannels' = Append(activeDMChannels, c)
                /\ Response(h, after)
    /\ ops' = [ops EXCEPT ![h] = Released(@)]
    /\ UNCHANGED << threadIds, subscriberChannels, operationQueue,
                    processingPromise, workers, thread, nh, polls, cycles,
                    faults, enq, broadcast, db >>

\* The caller of Bot.response resumes: 'messageCreate' replies or reacts
\* (253-267), /motivate sends and confirms or reports the error (187-199),
\* the motivation broadcast sends (323-329).  Only /motivate catches.
AfterResponse(h) ==
    /\ mq # << >>
    /\ Head(mq) = Microtask("c", h)
    /\ tasks[h].pc = "run"
    /\ tasks' = [tasks EXCEPT ![h] = [@ EXCEPT !.pc =
                    IF ops[h].res.ok = "yes" THEN "done"
                    ELSE IF tasks[h].kind = "motivate" THEN "errreply"
                    ELSE "rejected"]]
    /\ mq' = Tail(mq)
    /\ ops' = [ops EXCEPT ![h] = Released(@)]
    /\ UNCHANGED << threadIds, subscriberChannels, operationQueue,
                    processingPromise, workers, thread, nh, polls, cycles,
                    faults, enq, activeDMChannels, broadcast, db >>

\* '/motivate' (discord_interface.ts:179-182): deferReply is sent.
MotivateCmd(c) ==
    /\ mq = << >>
    /\ nh < MaxHandlers
    /\ nh' = nh + 1
    /\ tasks' = [tasks EXCEPT ![nh + 1] =
                    [NoTask EXCEPT !.kind = "motivate", !.chan = c, !.pc = "defer"]]
    /\ UNCHANGED << threadIds, subscriberChannels, operationQueue,
                    processingPromise, workers, ops, thread, mq, polls,
                    cycles, faults, enq, activeDMChannels, broadcast, db >>

\* '/motivate' after deferReply (discord_interface.ts:183-187).
MotivateDeferred(h) ==
    /\ mq = << >>
    /\ tasks[h].pc = "defer"
    /\ IF Includes(subscriberChannels, tasks[h].chan)
       THEN /\ tasks' = [tasks EXCEPT ![h] = [@ EXCEPT !.pc = "d",
                                                        !.thr = threadIds[tasks[h].chan]]]
            /\ mq' = << Microtask("d", h) >>
       ELSE /\ tasks' = [tasks EXCEPT ![h] = [@ EXCEPT !.pc = "errreply"]]
            /\ UNCHANGED mq
    /\ UNCHANGED << threadIds, subscriberChannels, operationQueue,
                    processingPromise, workers, ops, thread, nh, polls,
                    cycles, faults, enq, activeDMChannels, broadcast, db >>

\* broadcastMotivation (discord_interface.ts:318-321): one channels.fetch
\* per entry of subscriberChannels; Promise.all does not wait for them.
BroadcastMotivation ==
    /\ mq = << >>
    /\ Len(subscriberChannels) > 0
    /\ nh + Len(subscriberChannels) <= MaxHandlers
    /\ nh' = nh + Len(subscriberChannels)
    /\ tasks' = [h \in H |->
                    IF h > nh /\ h <= nh + Len(subscriberChannels)
                    THEN [NoTask EXCEPT !.kind = "bcast",
                                        !.chan = subscriberChannels[h - nh],
                                        !.pc = "fetch"]
                    ELSE tasks[h]]
    /\ UNCHANGED << threadIds, subscriberChannels, operationQueue,
                    processingPromise, workers, ops, thread, mq, polls,
                    cycles, faults, enq, activeDMChannels, broadcast, db >>

\* broadcastMotivation, the `.then` of channels.fetch (322-323).
BroadcastFetched(h) ==
    /\ mq = << >>
    /\ tasks[h].pc = "fetch"
    /\ tasks' = [tasks EXCEPT ![h] = [@ EXCEPT !.pc = "d",
                                                !.thr = threadIds[tasks[h].chan]]]
    /\ mq' = << Microtask("d", h) >>
    /\ UNCHANGED << threadIds, subscriberChannels, operationQueue,
                    processingPromise, workers, ops, thread, nh, polls,
                    cycles, faults, enq, activeDMChannels, broadcast, db >>

\* ------------------------------- DiscordInterface: subscriptions, broadcast
\* '/subscribe' and '/unsubscribe' (discord_interface.ts:118-119, 133-134):
\* deferReply is sent.
SubscriptionCmd(c, kind) ==
    /\ mq = << >>
    /\ nh < MaxHandlers
    /\ nh' = nh + 1
    /\ tasks' = [tasks EXCEPT ![nh + 1] =
                    [NoTask EXCEPT !.kind = kind, !.chan = c, !.pc = "defer"]]
    /\ UNCHANGED << threadIds, subscriberChannels, operationQueue,
                    processingPromise, workers, ops, thread, mq, polls,
                    cycles, faults, enq, activeDMChannels, broadcast, db >>

\* After deferReply: db.upsertChannel is called (121, 136).
SubscriptionDeferred(h) ==
    /\ mq = << >>
    /\ tasks[h].kind \in {"subscribe", "unsubscribe"}
    /\ tasks[h].pc = "defer"
    /\ tasks' = [tasks EXCEPT ![h] = [@ EXCEPT !.pc = "upsert"]]
    /\ UNCHANGED << threadIds, subscriberChannels, operationQueue,
                    processingPromise, workers, ops, thread, mq, nh, polls,
                    cycles, faults, enq, activeDMChannels, broadcast, db >>

\* Array.prototype.filter(id => id !== c)
Without(arr, c) == SelectSeq(arr, LAMBDA id : id # c)

\* The statement of upsertChannel (part_002:235-239) is executed: the
\* channel's subscribed flag is written.  Its reply is on the way; the
\* statements of overlapping commands travel on the connections of the
\* pool (part_002:27), so their replies arrive in any order.
UpsertApplied(h) ==
    /\ mq = << >>
    /\ tasks[h].pc = "upsert"
    /\ db' = [db EXCEPT !.sub = IF tasks[h].kind = "subscribe"
                                 THEN @ \cup {tasks[h].chan}
                                 ELSE @ \ {tasks[h].chan}]
    /\ tasks' = [tasks EXCEPT ![h] = [@ EXCEPT !.pc = "applied"]]
    /\ UNCHANGED << threadIds, subscriberChannels, operationQueue,
                    processingPromise, workers, ops, thread, mq, nh, polls,
                    cycles, faults, enq, activeDMChannels, broadcast >>

\* Mutant of UpsertDone: the list is changed whatever the command.
UpsertDonePushes(h) ==
    /\ mq = << >>
    /\ tasks[h].pc \in {"upsert", "applied"}
    /\ subscriberChannels' = Append(subscriberChannels, tasks[h].chan)
    /\ tasks' = [tasks EXCEPT ![h] = [@ EXCEPT !.pc = "done"]]
    /\ UNCHANGED << threadIds, operationQueue, processingPromise, workers,
                    ops, thread, mq, nh, polls, cycles, faults, enq,
                    activeDMChannels, broadcast, db >>

\* upsertChannel returned: '/subscribe' pushes the channel id (122),
\* '/unsubscribe' filters it out (137); the reply is edited.
UpsertDone(h) ==
    /\ mq = << >>
    /\ tasks[h].pc = "applied"
    /\ subscriberChannels' =
          IF tasks[h].kind = "subscribe"
          THEN Append(subscriberChannels, tasks[h].chan)
          ELSE Without(subscriberChannels, tasks[h].chan)
    /\ tasks' = [tasks EXCEPT ![h] = [@ EXCEPT !.pc = "done"]]
    /\ UNCHANGED << threadIds, operationQueue, processingPromise, workers,
                    ops, thread, mq, nh, polls, cycles, faults, enq,
                    activeDMChannels, broadcast, db >>

\* Mutant of UpsertFail: the list is changed before the error is reported.
UpsertFailPushes(h) ==
    /\ mq = << >>
    /\ tasks[h].pc = "upsert"
    /\ Fault
    /\ subscriberChannels' = Append(subscriberChannels, tasks[h].chan)
    /\ tasks' = [tasks EXCEPT ![h] = [@ EXCEPT !.pc = "errreply"]]
    /\ UNCHANGED << threadIds, operationQueue,
                    processingPromise, workers, ops, thread, mq, nh, polls,
                    cycles, enq, activeDMChannels, broadcast, db >>

\* upsertChannel raised, nothing was written: the error is reported with
\* editReply (126-129, 141-144).
UpsertFail(h) ==
    /\ mq = << >>
    /\ tasks[h].pc = "upsert"
    /\ Fault
    /\ tasks' = [tasks EXCEPT ![h] = [@ EXCEPT !.pc = "errreply"]]
    /\ UNCHANGED << threadIds, subscriberChannels, operationQueue,
                    processingPromise, workers, ops, thread, mq, nh, polls,
                    cycles, enq, activeDMChannels, broadcast, db >>

\* broadcastBrainteaserOfTheDay is called by the daily job (97-99) or by
\* '/select_next_botd' (168): the next brainteaser is selected (305).
BroadcastBotd ==
    /\ mq = << >>
    /\ nh < MaxHandlers
    /\ nh' = nh + 1
    /\ tasks' = [tasks EXCEPT ![nh + 1] =
                    [NoTask EXCEPT !.kind = "botd", !.pc = "select"]]
    /\ broadcast' = [broadcast EXCEPT ![nh + 1] = [@ EXCEPT !.st = "select"]]
    /\ UNCHANGED << threadIds, subscriberChannels, operationQueue,
                    processingPromise, workers, ops, thread, mq, polls,
                    cycles, faults, enq, activeDMChannels, db >>

\* The rows of brainteasers with used_for_botd IS NULL.
Unused(d) == {t \in Teaser : d.used[t] = 0}

\* broadcastBrainteaserOfTheDay after the selection returned or raised
\* (303-310): one channels.fetch is issued per entry of subscriberChannels;
\* the map callback returns nothing, so the function returns without
\* waiting for them.
Sending(text) ==
    [st |-> "sending", snap |-> subscriberChannels, fetched |-> {}, text |-> text]

\* Mutant of BotdPick: a botd row is inserted before the brainteaser is
\* looked for.
BotdPickRecording(h) ==
    /\ mq = << >>
    /\ tasks[h].pc = "select"
    /\ IF Unused(db) = {}
       THEN /\ broadcast' = [broadcast EXCEPT ![h] = Sending("error")]
            /\ tasks' = [tasks EXCEPT ![h] = [@ EXCEPT !.pc = "done"]]
            /\ db' = [db EXCEPT !.botd = Append(@, 0)]
       ELSE /\ \E t \in Unused(db) :
                  tasks' = [tasks EXCEPT ![h] = [@ EXCEPT !.pc = "insert", !.pick = t]]
            /\ UNCHANGED << broadcast, db >>
    /\ UNCHANGED << threadIds, subscriberChannels, operationQueue,
                    processingPromise, workers, ops, thread, mq, nh, polls,
                    cycles, faults, enq, activeDMChannels >>

\* DBInterface.selectNextBrainteaserOfTheDay, the first SELECT answered
\* (part_002:197-200): one of the unused brainteasers at random; with none
\* the function raises before the INSERT and broadcastBrainteaserOfTheDay
\* turns the failure into the text to post (discord_interface.ts:303-308).
BotdPick(h) ==
    /\ mq = << >>
    /\ tasks[h].pc = "select"
    /\ IF Unused(db) = {}
       THEN /\ broadcast' = [broadcast EXCEPT ![h] = Sending("error")]
            /\ tasks' = [tasks EXCEPT ![h] = [@ EXCEPT !.pc = "done"]]
       ELSE /\ \E t \in Unused(db) :
                  tasks' = [tasks EXCEPT ![h] = [@ EXCEPT !.pc = "insert", !.pick = t]]
            /\ UNCHANGED broadcast
    /\ UNCHANGED << threadIds, subscriberChannels, operationQueue,
                    processingPromise, workers, ops, thread, mq, nh, polls,
                    cycles, faults, enq, activeDMChannels, db >>

\* The INSERT INTO botd is executed and returns the id of the new row
\* (part_002:201); the rows of botd are numbered from 1.
BotdInsert(h) ==
    /\ mq = << >>
    /\ tasks[h].pc = "insert"
    /\ db' = [db EXCEPT !.botd = Append(@, tasks[h].pick)]
    /\ tasks' = [tasks EXCEPT ![h] = [@ EXCEPT !.pc = "update",
                                                !.row = Len(db.botd) + 1]]
    /\ UNCHANGED << threadIds, subscriberChannels, operationQueue,
                    processingPromise, workers, ops, thread, mq, nh, polls,
                    cycles, faults, enq, activeDMChannels, broadcast >>

\* The UPDATE of the brainteaser is executed (part_002:202), the name of
\* its author is read and the selection returns (203-211); the text of the
\* brainteaser is what is posted.
BotdUpdate(h) ==
    /\ mq = << >>
    /\ tasks[h].pc = "update"
    /\ db' = [db EXCEPT !.used = [@ EXCEPT ![tasks[h].pick] = tasks[h].row]]
    /\ broadcast' = [broadcast EXCEPT ![h] = Sending("botd")]
    /\ tasks' = [tasks EXCEPT ![h] = [@ EXCEPT !.pc = "done"]]
    /\ UNCHANGED << threadIds, subscriberChannels, operationQueue,
                    processingPromise, workers, ops, thread, mq, nh, polls,
                    cycles, faults, enq, activeDMChannels >>

\* The next statement of the selection raised (part_002:212-215): nothing
\* is written by it, what earlier statements wrote stays (there is no
\* transaction).  The error text is posted.
BotdSelectFail(h) ==
    /\ mq = << >>
    /\ tasks[h].pc \in {"select", "insert", "update"}
    /\ Fault
    /\ broadcast' = [broadcast EXCEPT ![h] = Sending("error")]
    /\ tasks' = [tasks EXCEPT ![h] = [@ EXCEPT !.pc = "done"]]
    /\ UNCHANGED << threadIds, subscriberChannels, operationQueue,
                    processingPromise, workers, ops, thread, mq, nh, polls,
                    cycles, enq, activeDMChannels, db >>

\* The `.then` of the i-th channels.fetch of the broadcast of h (310-314):
\* the post is sent.
BotdFetched(h, i) ==
    /\ mq = << >>
    /\ broadcast[h].st = "sending"
    /\ i \in (1 .. Len(broadcast[h].snap)) \ broadcast[h].fetched
    /\ broadcast' = [broadcast EXCEPT ![h] = [@ EXCEPT !.fetched = @ \cup {i}]]
    /\ UNCHANGED << threadIds, subscriberChannels, operationQueue,
                    processingPromise, workers, tasks, ops, thread, mq, nh,
                    polls, cycles, faults, enq, activeDMChannels, db >>

\* Posts of the broadcast of h sent to channel c so far.
Posts(h, c) == Cardinality({i \in broadcast[h].fetched : broadcast[h].snap[i] = c})

\* ------------------------------------------------- LLM: the Run driver
\* Tool names the remote service may request.  getLeaderboard and
\* checkSolution are entries of Bot.tools (part_001:213, part_001:31);
\* "bogus" is not.  checkSolution always throws (llm.ts:153).
Registered == {"getLeaderboard", "checkSolution"}
ToolNames  == Registered \cup {"bogus"}

\* Mutant of Invoke: an absent entry is skipped (`tools[name]?.(args)`)
\* instead of raising.
InvokeOptional(name) ==
    IF name \notin Registered THEN "ok"
    ELSE IF name = "checkSolution" THEN "Disabled"
    ELSE "pending"

\* tools[name]!(args) inside the async map callback (llm.ts:113): what the
\* call has produced when the callback first suspends.  An absent entry
\* raises a TypeError, checkSolution raises at once, getLeaderboard awaits
\* the database.
Invoke(name) ==
    IF name \notin Registered THEN "TypeError"
    ELSE IF name = "checkSolution" THEN "Disabled"
    ELSE "pending"

\* Mutant of ToolOutput: the error text does not name the tool.
ToolOutputUnnamed(call, r) ==
    [tool_call_id |-> call.id,
     output |-> IF r = "ok"
                THEN [kind |-> "result", tool |-> call.name, err |-> "none"]
                ELSE [kind |-> "error", tool |-> "", err |-> r]]

\* The value one map callback returns (llm.ts:114-123): the handler's output,
\* or the error text embedding the tool name and the error.
ToolOutput(call, r) ==
    [tool_call_id |-> call.id,
     output |-> IF r = "ok"
                THEN [kind |-> "result", tool |-> call.name, err |-> "none"]
                ELSE [kind |-> "error", tool |-> call.name, err |-> r]]

\* Mutant of ToolOutputs: the outputs of failed handlers are left out.
ToolOutputsOfSuccesses(calls, results) ==
    SelectSeq([i \in 1 .. Len(calls) |-> ToolOutput(calls[i], results[i])],
              LAMBDA o : o.output.kind = "result")

\* Promise.all over the mapped tool calls (llm.ts:110-125).
ToolOutputs(calls, results) ==
    [i \in 1 .. Len(calls) |-> ToolOutput(calls[i], results[i])]

\* Mutant of AllSettled: the batch is taken as soon as one handler settled.
AnySettled(results) == \E i \in 1 .. Len(results) : results[i] # "pending"

\* Promise.all fulfils when every mapped promise has (llm.ts:110-125).
AllSettled(results) == \A i \in 1 .. Len(results) : results[i] # "pending"

\* Statuses a poll can observe after status s was observed.
Transient == {"queued", "in_progress"}
\* Mutant of Rejecting: the branch of llm.ts:141 is missing, so queued falls
\* to the final else.
RejectingQueued == {"failed", "incomplete", "cancelled", "queued"}
Rejecting == {"failed", "incomplete", "cancelled"}
CanFollow(s) ==
    IF s = "queued" THEN Transient \cup Rejecting \cup {"requires_action", "completed"}
    ELSE {"in_progress", "requires_action", "completed"} \cup Rejecting

\* Mutant of Latest: the other end of the list.
Oldest(k) == thread[k][1]

\* messages.list(threadId).data[0]: the most recent message of the thread.
Latest(k) == thread[k][Len(thread[k])]

Executing(h, pc) == ops[h].st = "exec" /\ ops[h].kind = "run" /\ ops[h].pc = pc

\* runs.create returned (llm.ts:90-99); the loop issues the first retrieve.
\* The remote service has no thread for the absent handle.
CreateRunDone(h) ==
    /\ mq = << >>
    /\ Executing(h, "runs.create")
    /\ ops[h].key # 0
    /\ ops' = [ops EXCEPT ![h] = [@ EXCEPT !.status = "queued", !.pc = "retrieve"]]
    /\ UNCHANGED << threadIds, subscriberChannels, operationQueue,
                    processingPromise, workers, tasks, thread, mq, nh,
                    polls, cycles, faults, enq, activeDMChannels, broadcast,
                    db >>

CreateRunFail(h) ==
    /\ mq = << >>
    /\ Executing(h, "runs.create")
    /\ IF ops[h].key = 0 THEN UNCHANGED faults ELSE Fault
    /\ Settled(h, ErrRes("network"), ops[h].status)
    /\ UNCHANGED << threadIds, subscriberChannels, operationQueue,
                    processingPromise, workers, tasks, thread, nh, polls,
                    cycles, enq, activeDMChannels, broadcast, db >>

\* runs.retrieve observed queued or in_progress: sleep one second (141-142).
PollTransient(h, s) ==
    /\ mq = << >>
    /\ Executing(h, "retrieve")
    /\ s \in Transient \cap CanFollow(ops[h].status)
    /\ polls < MaxPolls
    /\ polls' = polls + 1
    /\ ops' = [ops EXCEPT ![h] = [@ EXCEPT !.status = s, !.pc = "sleep",
                                            !.calls = << >>, !.invoked = << >>]]
    /\ UNCHANGED << threadIds, subscriberChannels, operationQueue,
                    processingPromise, workers, tasks, thread, mq, nh,
                    cycles, faults, enq, activeDMChannels, broadcast, db >>

\* runs.retrieve observed queued or in_progress once more, past the number
\* of such observations that is counted.
PollTransientAgain(h, s) ==
    /\ mq = << >>
    /\ Executing(h, "retrieve")
    /\ s \in Transient \cap CanFollow(ops[h].status)
    /\ polls = MaxPolls
    /\ ops' = [ops EXCEPT ![h] = [@ EXCEPT !.status = s, !.pc = "sleep",
                                            !.calls = << >>, !.invoked = << >>]]
    /\ UNCHANGED << threadIds, subscriberChannels, operationQueue,
                    processingPromise, workers, tasks, thread, mq, nh, polls,
                    cycles, faults, enq, activeDMChannels, broadcast, db >>

\* Mutant of TimerFired: the timer of the sleep is never armed.
TimerNever(h) == FALSE /\ UNCHANGED vars

\* The one-second timer of llm.ts:142 fires; the loop polls again.
TimerFired(h) ==
    /\ mq = << >>
    /\ Executing(h, "sleep")
    /\ ops' = [ops EXCEPT ![h] = [@ EXCEPT !.pc = "retrieve"]]
    /\ UNCHANGED << threadIds, subscriberChannels, operationQueue,
                    processingPromise, workers, tasks, thread, mq, nh,
                    polls, cycles, faults, enq, activeDMChannels, broadcast,
                    db >>

\* The tool calls of the Run of h that the remote service still waits for:
\* those of a cycle whose submission raised.
Outstanding(h) == ops[h].pc = "retrieve" /\ ops[h].calls # << >>

\* runs.retrieve observed requires_action with the tool calls `names`
\* (102-113): every handler is invoked; when none of them is pending the
\* batch is submitted at once.  While the calls of a cycle are outstanding
\* the Run is observed with the same calls, and their handlers are invoked
\* again.
PollRequiresAction(h, names) ==
    /\ mq = << >>
    /\ Executing(h, "retrieve")
    /\ "requires_action" \in CanFollow(ops[h].status)
    /\ IF Outstanding(h)
       THEN /\ names = [i \in 1 .. Len(ops[h].calls) |-> ops[h].calls[i].name]
            /\ UNCHANGED cycles
       ELSE /\ cycles < MaxCycles
            /\ cycles' = cycles + 1
    /\ LET calls   == [i \in 1 .. Len(names) |-> [id |-> i, name |-> names[i]]]
           results == [i \in 1 .. Len(names) |-> Invoke(names[i])]
       IN  ops' = [ops EXCEPT ![h] =
                      [@ EXCEPT !.status = "requires_action",
                                !.invoked =
                                    [i \in 1 .. Len(names) |->
                                        IF Outstanding(h) THEN ops[h].invoked[i] + 1
                                        ELSE 1],
                                !.unknownTool =
                                    @ \/ \E i \in 1 .. Len(names) :
                                             names[i] \notin Registered,
                                !.calls = calls,
                                !.results = results,
                                !.batch = IF AllSettled(results)
                                          THEN ToolOutputs(calls, results)
                                          ELSE << >>,
                                !.pc = IF AllSettled(results)
                                       THEN "submit" ELSE "tools"]]
    /\ UNCHANGED << threadIds, subscriberChannels, operationQueue,
                    processingPromise, workers, tasks, thread, mq, nh,
                    polls, faults, enq, activeDMChannels, broadcast, db >>

\* The handler of tool call i returned (r = "ok") or raised.
ToolSettled(h, i, r) ==
    /\ mq = << >>
    /\ Executing(h, "tools")
    /\ i \in 1 .. Len(ops[h].results)
    /\ ops[h].results[i] = "pending"
    /\ LET results == [ops[h].results EXCEPT ![i] = r]
       IN  ops' = [ops EXCEPT ![h] =
                      [@ EXCEPT !.results = results,
                                !.batch = IF AllSettled(results)
                                          THEN ToolOutputs(ops[h].calls, results)
                                          ELSE << >>,
                                !.pc = IF AllSettled(results)
                                       THEN "submit" ELSE "tools"]]
    /\ UNCHANGED << threadIds, subscriberChannels, operationQueue,
                    processingPromise, workers, tasks, thread, mq, nh,
                    polls, cycles, faults, enq, activeDMChannels, broadcast,
                    db >>

\* submitToolOutputs returned the resumed run (106-127); poll again.
SubmitDone(h) ==
    /\ mq = << >>
    /\ Executing(h, "submit")
    /\ ops' = [ops EXCEPT ![h] = [@ EXCEPT !.status = "in_progress",
                                            !.pc = "retrieve",
                                            !.calls = << >>, !.results = << >>,
                                            !.batch = << >>, !.invoked = << >>]]
    /\ UNCHANGED << threadIds, subscriberChannels, operationQueue,
                    processingPromise, workers, tasks, thread, mq, nh,
                    polls, cycles, faults, enq, activeDMChannels, broadcast,
                    db >>

\* submitToolOutputs raised: logged (128-130); poll again, without a sleep.
\* The outputs computed so far are dropped with the rejected promise; the
\* remote Run still waits for the outputs of the calls unless a later poll
\* observes otherwise.
SubmitFail(h) ==
    /\ mq = << >>
    /\ Executing(h, "submit")
    /\ Fault
    /\ ops' = [ops EXCEPT ![h] = [@ EXCEPT !.pc = "retrieve",
                                            !.results = << >>,
                                            !.batch = << >>]]
    /\ UNCHANGED << threadIds, subscriberChannels, operationQueue,
                    processingPromise, workers, tasks, thread, mq, nh,
                    polls, cycles, enq, activeDMChannels, broadcast, db >>

\* runs.retrieve observed completed (132-133): the Run has added its message
\* to the thread, whose first content part has type `type`; list is called.
PollCompleted(h, type) ==
    /\ mq = << >>
    /\ Executing(h, "retrieve")
    /\ thread' = [thread EXCEPT ![ops[h].key] =
                     Append(@, [src |-> "run", h |-> h, type |-> type, role |-> "assistant"])]
    /\ ops' = [ops EXCEPT ![h] = [@ EXCEPT !.status = "completed", !.pc = "list",
                                            !.calls = << >>, !.invoked = << >>]]
    /\ UNCHANGED << threadIds, subscriberChannels, operationQueue,
                    processingPromise, workers, tasks, mq, nh, polls,
                    cycles, faults, enq, activeDMChannels, broadcast, db >>

\* Mutant of Rejection: an incomplete Run is taken for a finished one.
RejectionLost(s) ==
    IF s = "incomplete" THEN OkRes(NoVal)
    ELSE ErrRes(IF s = "cancelled" THEN "unknown_status" ELSE s)

\* The error runAssistant throws for the final status s (139-147): the
\* remote error of a failed Run, the detail of an incomplete one, "Unknown
\* run status" for every other status.
Rejection(s) == ErrRes(IF s = "cancelled" THEN "unknown_status" ELSE s)

\* runs.retrieve observed failed, incomplete or another status (139-147).
PollRejecting(h, s) ==
    /\ mq = << >>
    /\ Executing(h, "retrieve")
    /\ s \in Rejecting
    /\ Settled(h, Rejection(s), s)
    /\ UNCHANGED << threadIds, subscriberChannels, operationQueue,
                    processingPromise, workers, tasks, thread, nh, polls,
                    cycles, faults, enq, activeDMChannels, broadcast, db >>

RetrieveFail(h) ==
    /\ mq = << >>
    /\ Executing(h, "retrieve")
    /\ Fault
    /\ Settled(h, ErrRes("network"), ops[h].status)
    /\ UNCHANGED << threadIds, subscriberChannels, operationQueue,
                    processingPromise, workers, tasks, thread, nh, polls,
                    cycles, enq, activeDMChannels, broadcast, db >>

\* The text the driver returns for message m, or the rejection (134-138).
TextOf(m) == IF m.type = "text" THEN OkRes(m) ELSE ErrRes("not_text")

\* Mutant of ListDone: delivering the text forgets the thread of the channel.
ListDoneForgets(h) ==
    /\ mq = << >>
    /\ Executing(h, "list")
    /\ Settled(h, TextOf(Latest(ops[h].key)), ops[h].status)
    /\ threadIds' = [threadIds EXCEPT ![tasks[h].chan] = 0]
    /\ UNCHANGED << subscriberChannels, operationQueue,
                    processingPromise, workers, tasks, thread, nh, polls,
                    cycles, faults, enq, activeDMChannels, broadcast, db >>

\* messages.list returned (133-138).
ListDone(h) ==
    /\ mq = << >>
    /\ Executing(h, "list")
    /\ Settled(h, TextOf(Latest(ops[h].key)), ops[h].status)
    /\ UNCHANGED << threadIds, subscriberChannels, operationQueue,
                    processingPromise, workers, tasks, thread, nh, polls,
                    cycles, faults, enq, activeDMChannels, broadcast, db >>

ListFail(h) ==
    /\ mq = << >>
    /\ Executing(h, "list")
    /\ Fault
    /\ Settled(h, ErrRes("network"), ops[h].status)
    /\ UNCHANGED << threadIds, subscriberChannels, operationQueue,
                    processingPromise, workers, tasks, thread, nh, polls,
                    cycles, enq, activeDMChannels, broadcast, db >>

\* ------------------------------------------------------------ specification
CallNames == UNION { [1 .. n -> ToolNames] : n \in 1 .. MaxCalls }

Next ==
    \/ \E c \in Chan, fromMe \in BOOLEAN : MessageCreate(c, fromMe)
    \/ \E c \in Chan : MotivateCmd(c)
    \/ BroadcastMotivation
    \/ \E h \in H : MotivateDeferred(h)
    \/ \E h \in H : BroadcastFetched(h)
    \/ \E h \in H : CreateThreadDone(h)
    \/ \E h \in H : CreateThreadFail(h)
    \/ \E h \in H : AddMessageEnqueue(h)
    \/ \E h \in H : MessagesCreateDone(h)
    \/ \E h \in H : MessagesCreateFail(h)
    \/ \E h \in H : ResolveCaller(h)
    \/ \E h \in H : BotContinue(h)
    \/ \E h \in H : AfterAppend(h)
    \/ \E h \in H : AfterResponse(h)
    \/ \E h \in H : ResponseEnqueue(h)
    \/ \E k \in Key : DrainStep(k)
    \/ \E k \in Key : ClearProcessing(k)
    \/ \E h \in H : CreateRunDone(h)
    \/ \E h \in H : CreateRunFail(h)
    \/ \E h \in H, type \in {"text", "image_file"} : PollCompleted(h, type)
    \/ \E h \in H, s \in Rejecting : PollRejecting(h, s)
    \/ \E h \in H : RetrieveFail(h)
    \/ \E h \in H : ListDone(h)
    \/ \E h \in H : ListFail(h)

Spec == Init /\ [][Next]_vars

NextDriver ==
    \/ Next
    \/ \E h \in H, s \in Transient : PollTransient(h, s)
    \/ \E h \in H : TimerFired(h)
    \/ \E h \in H, names \in CallNames : PollRequiresAction(h, names)
    \/ \E h \in H, i \in 1 .. MaxCalls, r \in {"ok", "HandlerError"} :
          ToolSettled(h, i, r)
    \/ \E h \in H : SubmitDone(h)
    \/ \E h \in H : SubmitFail(h)

SpecDriver == InitDriver /\ [][NextDriver]_vars

\* Behaviours of SpecLive: those of SpecDriver in which the remote Run may
\* be observed queued or in progress any number of times, under the
\* scheduling of the runtime: every reaction in the microtask queue runs,
\* every external call and every tool handler returns or raises, the timer
\* fires, and the remote Run, polled again and again, is at last observed in
\* a final status.
NextLive ==
    \/ NextDriver
    \/ \E h \in H, s \in Transient : PollTransientAgain(h, s)

\* What the runtime and the collaborators do for activation h without a new
\* inbound event.
Progress(h) ==
    \/ CreateThreadDone(h) \/ CreateThreadFail(h)
    \/ AddMessageEnqueue(h)
    \/ MessagesCreateDone(h) \/ MessagesCreateFail(h)
    \/ ResolveCaller(h) \/ BotContinue(h)
    \/ AfterAppend(h) \/ AfterResponse(h) \/ ResponseEnqueue(h)
    \/ MotivateDeferred(h) \/ BroadcastFetched(h)
    \/ CreateRunDone(h) \/ CreateRunFail(h)
    \/ \E s \in Transient : PollTransient(h, s) \/ PollTransientAgain(h, s)
    \/ TimerFired(h)
    \/ \E names \in CallNames : PollRequiresAction(h, names)
    \/ \E i \in 1 .. MaxCalls, r \in {"ok", "HandlerError"} : ToolSettled(h, i, r)
    \/ SubmitDone(h) \/ SubmitFail(h)
    \/ \E type \in {"text", "image_file"} : PollCompleted(h, type)
    \/ \E s \in Rejecting : PollRejecting(h, s)
    \/ RetrieveFail(h)
    \/ ListDone(h) \/ ListFail(h)

\* A poll of the Run of h observes a final status.
FinalObserved(h) ==
    \/ \E type \in {"text", "image_file"} : PollCompleted(h, type)
    \/ \E s \in Rejecting : PollRejecting(h, s)

Fairness ==
    /\ \A h \in H : WF_vars(Progress(h))
    /\ \A h \in H : SF_vars(FinalObserved(h))
    /\ \A k \in Key : WF_vars(DrainStep(k) \/ ClearProcessing(k))

SpecLive == InitDriver /\ [][NextLive]_vars /\ Fairness

\* intializeSubscribers after `await this.db.getSubscribedChannelIds()`
\* returned the subscribed channel c1 (364-366): the history of the channel
\* is being fetched.
StartupTask == [NoTask EXCEPT !.kind = "init", !.chan = "c1", !.pc = "history"]

\* Behaviours of SpecDM: two messages, each of the direct-message channel
\* or of the subscribed channel, are still to come, or the replay of startup
\* is under way and one such message is still to come, after
\* MaxHandlers - 2 messages of the unsubscribed channel c2 were ignored;
\* every Run is observed in a final status by its first poll.
InitDM ==
    /\ InitBot
    /\ \E startup \in BOOLEAN :
          /\ tasks = [h \in H |-> IF h < MaxHandlers - 1 THEN IgnoredTask
                                  ELSE IF startup /\ h = MaxHandlers - 1
                                  THEN StartupTask
                                  ELSE NoTask]
          /\ nh = IF startup THEN MaxHandlers - 1 ELSE MaxHandlers - 2
    /\ polls = MaxPolls
    /\ cycles = MaxCycles
    /\ db = Db(MaxUnused)

NextDM ==
    \/ \E c \in DMChan \cup {"c1"}, fromMe \in BOOLEAN : MessageCreate(c, fromMe)
    \/ \E h \in H, n \in 0 .. MaxHist : HistoryFetched(h, n)
    \/ \E h \in H : HistoryFetchFail(h)
    \/ \E h \in H : AfterReplayAppend(h)
    \/ \E h \in H : CreateThreadDone(h)
    \/ \E h \in H : CreateThreadFail(h)
    \/ \E h \in H : AddMessageEnqueue(h)
    \/ \E h \in H : MessagesCreateDone(h)
    \/ \E h \in H : MessagesCreateFail(h)
    \/ \E h \in H : ResolveCaller(h)
    \/ \E h \in H : BotContinue(h)
    \/ \E h \in H : AfterAppend(h)
    \/ \E h \in H : AfterResponse(h)
    \/ \E h \in H : ResponseEnqueue(h)
    \/ \E k \in Key : DrainStep(k)
    \/ \E k \in Key : ClearProcessing(k)
    \/ \E h \in H : CreateRunDone(h)
    \/ \E h \in H : CreateRunFail(h)
    \/ \E h \in H, type \in {"text", "image_file"} : PollCompleted(h, type)
    \/ \E h \in H, s \in Rejecting : PollRejecting(h, s)
    \/ \E h \in H : RetrieveFail(h)
    \/ \E h \in H : ListDone(h)
    \/ \E h \in H : ListFail(h)

SpecDM == InitDM /\ [][NextDM]_vars

\* Behaviours of SpecSub: subscription commands and broadcasts of the
\* Brainteaser of the Day, which may overlap, from the state in which c1 is subscribed and the
\* database holds any number of unused brainteasers up to MaxUnused.
InitSub ==
    /\ InitBot
    /\ tasks = [h \in H |-> NoTask]
    /\ nh = 0
    /\ polls = MaxPolls
    /\ cycles = MaxCycles
    /\ db \in {Db(u) : u \in 0 .. MaxUnused}

NextSub ==
    \/ \E c \in Chan, kind \in {"subscribe", "unsubscribe"} : SubscriptionCmd(c, kind)
    \/ \E h \in H : SubscriptionDeferred(h)
    \/ \E h \in H : UpsertApplied(h)
    \/ \E h \in H : UpsertDone(h)
    \/ \E h \in H : UpsertFail(h)
    \/ BroadcastBotd
    \/ \E h \in H : BotdPick(h)
    \/ \E h \in H : BotdInsert(h)
    \/ \E h \in H : BotdUpdate(h)
    \/ \E h \in H : BotdSelectFail(h)
    \/ \E h \in H, i \in 1 .. MaxHandlers + 1 : BotdFetched(h, i)

SpecSub == InitSub /\ [][NextSub]_vars

\* Behaviours of SpecUnsub: subscription commands and messages of users in
\* the guild channels; no external call fails and every Run is observed
\* completed by its first poll.
NextUnsub ==
    \/ \E c \in Chan, kind \in {"subscribe", "unsubscribe"} : SubscriptionCmd(c, kind)
    \/ \E h \in H : SubscriptionDeferred(h)
    \/ \E h \in H : UpsertApplied(h)
    \/ \E h \in H : UpsertDone(h)
    \/ \E c \in Chan : MessageCreate(c, FALSE)
    \/ \E h \in H : CreateThreadDone(h)
    \/ \E h \in H : AddMessageEnqueue(h)
    \/ \E h \in H : MessagesCreateDone(h)
    \/ \E h \in H : ResolveCaller(h)
    \/ \E h \in H : BotContinue(h)
    \/ \E h \in H : AfterAppend(h)
    \/ \E h \in H : AfterResponse(h)
    \/ \E h \in H : ResponseEnqueue(h)
    \/ \E k \in Key : DrainStep(k)
    \/ \E k \in Key : ClearProcessing(k)
    \/ \E h \in H : CreateRunDone(h)
    \/ \E h \in H : PollCompleted(h, "text")
    \/ \E h \in H : ListDone(h)

SpecUnsub == Init /\ [][NextUnsub]_vars

\* ================================================================ claims
Executes(k) == {h \in H : ops[h].st = "exec" /\ ops[h].key = k}
Live(h)     == ops[h].kind # "none"

\* C1: for every thread key, at most one queued operation is executing at
\* any instant.
C1_AtMostOneExecuting == \A k \in Key : Cardinality(Executes(k)) <= 1

\* C1 witness: an operation executes while another operation of the same
\* key waits in the list.
C1_Witness ==
    \E h, g \in H : /\ h # g
                    /\ ops[h].st = "exec" /\ ops[g].st = "queued"
                    /\ ops[h].key = ops[g].key

C3_NoStrandedOperation ==
    \A k \in Key :
        operationQueue[k] # << >> =>
            \/ Executes(k) # {}
            \/ \E i \in 1 .. Len(mq) : mq[i] = Microtask("iife", k)

\* C3 witness: a drain loop has returned after running at least two
\* operations of a key, the second one taken from the list by the loop.
C3_Witness ==
    \E k \in Key : /\ processingPromise[k] = "fulfilled"
                   /\ enq[k] >= 2
                   /\ operationQueue[k] = << >>
                   /\ \E h \in H : ops[h].key = k /\ ops[h].st = "done" /\ ops[h].eno = 2

\* C4: when a queued operation fails, the drain loop of its key resumes and
\* takes the next operation of the list, the results of the other
\* operations are untouched, and only a caller whose own operation failed
\* sees a failure.
C4_Step ==
    /\ \A k \in Key :
          ( /\ mq # << >> /\ Head(mq) = Microtask("iife", k)
            /\ JustFailed(k) /\ operationQueue[k] # << >> )
          => /\ ops'[Head(operationQueue[k])].st = "exec"
             /\ workers'[k] = workers[k]
             /\ \A g \in H : g # Head(operationQueue[k]) => ops'[g] = ops[g]
    /\ \A g \in H :
          ( tasks[g].pc \in {"add", "run"} /\ tasks'[g].pc \in {"rejected", "errreply"} )
          => ops[g].res.ok = "no"
C4_FailureIsolated == [][C4_Step]_vars

\* C4 witness: an operation has failed and the operation queued behind it is
\* executing.
C4_Witness ==
    \E h, g \in H : /\ ops[h].key = ops[g].key /\ ops[h].eno < ops[g].eno
                    /\ ops[h].st = "done" /\ ops[h].res.ok = "no"
                    /\ ops[g].st = "exec"

\* C5: concurrent calls of getThreadId for one channel without a thread
\* invoke createThread once and resolve to the same handle.
C5_SingleAllocation ==
    \A h, g \in H :
        (h # g /\ tasks[h].chan = tasks[g].chan) =>
            /\ ~ (tasks[h].pc = "createThread" /\ tasks[g].pc = "createThread")
            /\ (tasks[h].pc \in {"g", "add"} /\ tasks[g].pc \in {"g", "add"})
                  => tasks[h].thr = tasks[g].thr

\* C6: for every channel at most one Run is in flight (submitted and not
\* observed in a final status) at any instant.
InFlight == {"queued", "in_progress", "requires_action"}
C6_OneRunInFlight ==
    \A c \in Chan :
        Cardinality({h \in H : tasks[h].chan = c /\ ops[h].status \in InFlight}) <= 1

\* C7: the batch submitted for a requires_action observation with k tool
\* calls holds exactly k outputs, exactly one per tool call id, however many
\* handlers failed.
C7_FullBatch ==
    \A h \in H :
        Executing(h, "submit") =>
            /\ Len(ops[h].batch) = Len(ops[h].calls)
            /\ \A i \in 1 .. Len(ops[h].calls) :
                  Cardinality({j \in 1 .. Len(ops[h].batch) :
                      ops[h].batch[j].tool_call_id = ops[h].calls[i].id}) = 1

\* C7 witness: a batch for two tool calls is being submitted and both
\* handlers failed.
C7_Witness ==
    \E h \in H : /\ Executing(h, "submit")
                 /\ Len(ops[h].calls) = 2
                 /\ \A i \in 1 .. 2 : ops[h].results[i] # "ok"

Raised(r) == r \notin {"ok", "pending"}

\* C8: a tool handler that raises never makes runAssistant reject: the
\* operation goes on to submit the batch and to poll again, and the output
\* of the failed call is the error text embedding the tool name and the
\* error.
C8_Step ==
    \A h \in H :
        /\ Executing(h, "tools") => ops'[h].st = "exec" /\ ops'[h].pc \in {"tools", "submit"}
        /\ Executing(h, "submit") => ops'[h].st = "exec" /\ ops'[h].pc = "retrieve"
        /\ (ops'[h].st = "exec" /\ ops'[h].pc = "submit") =>
              \A i \in 1 .. Len(ops'[h].calls) :
                  Raised(ops'[h].results[i]) =>
                      ops'[h].batch[i] =
                          [tool_call_id |-> ops'[h].calls[i].id,
                           output |-> [kind |-> "error",
                                       tool |-> ops'[h].calls[i].name,
                                       err |-> ops'[h].results[i]]]
C8_ToolFailureContained == [][C8_Step]_vars

\* C8 witness: the batch is being submitted after a handler that ran raised.
C8_Witness ==
    \E h \in H : /\ Executing(h, "submit")
                 /\ \E i \in 1 .. Len(ops[h].results) : ops[h].results[i] = "HandlerError"

\* C9: a tool call naming an unregistered tool gets exactly one output, the
\* error text naming the tool with the TypeError of calling the absent
\* entry; when the Run then completes and its latest message is the text T,
\* the caller receives T.
C9_UnknownTool ==
    \A h \in H :
        /\ Executing(h, "submit") =>
              \A i \in 1 .. Len(ops[h].calls) :
                  ops[h].calls[i].name \notin Registered =>
                      /\ ops[h].batch[i] =
                            [tool_call_id |-> ops[h].calls[i].id,
                             output |-> [kind |-> "error",
                                         tool |-> ops[h].calls[i].name,
                                         err |-> "TypeError"]]
                      /\ \A j \in 1 .. Len(ops[h].batch) :
                            ops[h].batch[j].tool_call_id = ops[h].calls[i].id => j = i
        /\ ( /\ ops[h].st = "done" /\ ops[h].unknownTool
             /\ ops[h].status = "completed" /\ ops[h].res.err # "network"
             /\ thread[ops[h].key][Len(thread[ops[h].key])].type = "text" )
           => /\ ops[h].res.ok = "yes"
              /\ ops[h].res.val = thread[ops[h].key][Len(thread[ops[h].key])]

\* C9 witness: a Run that requested an unregistered tool has resolved.
C9_Witness ==
    \E h \in H : ops[h].st = "done" /\ ops[h].unknownTool /\ ops[h].res.ok = "yes"

\* C10: when the Run is observed completed and messages.list returns, the
\* operation resolves with the most recent message of the thread if its
\* first content part is text, and rejects otherwise.
C10_CompletedText ==
    \A h \in H :
        ( /\ ops[h].kind = "run" /\ ops[h].st = "done"
          /\ ops[h].status = "completed" /\ ops[h].res.err # "network" )
        => LET msgs == thread[ops[h].key]
               m    == msgs[Len(msgs)]
           IN  IF m.type = "text"
               THEN ops[h].res = [ok |-> "yes", val |-> m, err |-> "none"]
               ELSE ops[h].res.ok = "no" /\ ops[h].res.err = "not_text"

\* C10 witness: a Run has resolved with the latest message of a thread that
\* holds an earlier message.
C10_Witness ==
    \E h \in H : /\ ops[h].kind = "run" /\ ops[h].st = "done"
                 /\ ops[h].res.ok = "yes"
                 /\ Len(thread[ops[h].key]) >= 2

\* C11: a Run observed failed, incomplete or in an unknown status makes
\* runAssistant reject with the error of that status; the operation is over
\* (no further poll or submission), and the caller that enqueued it is the
\* one that sees the rejection.
C11_Step ==
    \A h \in H :
        /\ (Executing(h, "retrieve") /\ ops'[h].status \in Rejecting)
              => /\ ops'[h].st = "done"
                 /\ ops'[h].pc = "-"
                 /\ ops'[h].res =
                       [ok |-> "no", val |-> NoVal,
                        err |-> IF ops'[h].status \in {"failed", "incomplete"}
                                THEN ops'[h].status ELSE "unknown_status"]
        /\ (ops[h].st = "done" /\ ops[h].status \in Rejecting)
              => /\ ops'[h].st \in {"done", "idle"}
                 /\ ops'[h].pc = "-"
                 /\ (tasks'[h].pc # tasks[h].pc)
                       => tasks'[h].pc \in {"rejected", "errreply"}
C11_RunRejected == [][C11_Step]_vars

\* C11 witness: a Run was observed incomplete and its operation has
\* rejected with that error.
C11_Witness ==
    \E h \in H : /\ ops[h].st = "done"
                 /\ ops[h].status = "incomplete"
                 /\ ops[h].res = ErrRes("incomplete")

\* The handler g asked for a Run that rejected: its own message, if it had
\* one, was appended, and it ended with the rejection.
RunFailedBy(g) ==
    /\ tasks[g].pc \in {"rejected", "errreply"}
    /\ tasks[g].thr # 0
    /\ tasks[g].kind = "msg" =>
          \E k \in Key : \E i \in 1 .. Len(thread[k]) :
              thread[k][i].src = "chat" /\ thread[k][i].h = g
FailedRunOn(k) ==
    \E g \in H :
        \/ /\ ops[g].kind = "run" /\ ops[g].st = "done"
           /\ ops[g].key = k /\ ops[g].res.ok = "no"
        \/ RunFailedBy(g) /\ tasks[g].thr = k

\* C12: after a Run of a thread has ended in failure the queue of the
\* thread stays usable: an operation waiting in its list has a drain loop
\* that will reach it, a processing promise that is set belongs to a
\* running drain loop or is about to be cleared, so that the next enqueue
\* is served, and every settled operation of the thread has its own result.
C12_UsableAfterFailure ==
    \A k \in Key :
        FailedRunOn(k) =>
            /\ operationQueue[k] # << >> =>
                  \/ Executes(k) # {}
                  \/ \E i \in 1 .. Len(mq) : mq[i] = Microtask("iife", k)
            /\ processingPromise[k] # "null" =>
                  \/ workers[k] = 1
                  \/ \E i \in 1 .. Len(mq) : mq[i] = Microtask("clear", k)
            /\ \A h \in H : (ops[h].key = k /\ ops[h].st = "done")
                                => ops[h].res.ok \in {"yes", "no"}

\* C12 witness: a Run has resolved on the thread on which the Run of
\* another handler had failed.
C12_Witness ==
    \E g, h \in H : /\ g # h /\ RunFailedBy(g)
                    /\ ops[h].key = tasks[g].thr
                    /\ ops[h].kind = "run" /\ ops[h].st = "done"
                    /\ ops[h].res.ok = "yes"

\* C15: operations of different keys are independent.  An enqueue on key k
\* starts the operation at once iff k has no processing promise, whatever
\* the other keys are doing, and touches nothing of another key; a step
\* that begins or settles an operation of key k leaves the lists, the
\* processing promises and the operations of the other keys as they were.
C15_Step ==
    \A h \in H :
        /\ (ops[h].eno = 0 /\ ops'[h].eno > 0) =>
              (ops'[h].st = "exec" <=> processingPromise[ops'[h].key] = "null")
        /\ (ops'[h].st # ops[h].st /\ ops'[h].st \in {"queued", "exec", "done"}) =>
              /\ \A j \in Key : j # ops'[h].key =>
                    /\ operationQueue'[j] = operationQueue[j]
                    /\ processingPromise'[j] = processingPromise[j]
                    /\ workers'[j] = workers[j]
              /\ \A g \in H : (ops[g].st # "idle" /\ ops[g].key # ops'[h].key)
                                  => ops'[g] = ops[g]
C15_KeysIndependent == [][C15_Step]_vars

\* C15 witness: an operation has resolved on one key while an operation of
\* another key, enqueued by an earlier event, is still executing.
C15_Witness ==
    \E h, g \in H : /\ h < g
                    /\ ops[h].st = "exec" /\ ops[g].st = "done"
                    /\ ops[g].res.ok = "yes"
                    /\ ops[h].key # ops[g].key

\* C16: a Run is never enqueued or submitted with the absent thread handle:
\* a response request allocates the thread of its channel first.
C16_RunHasThread ==
    \A h \in H : (ops[h].kind = "run" /\ ops[h].st # "idle") => ops[h].key # 0

\* C17: a thread handle, once stored for a channel, is never removed or
\* replaced.
C17_Step == \A c \in DOMAIN threadIds : threadIds[c] # 0 => threadIds'[c] = threadIds[c]
C17_HandleStable == [][C17_Step]_vars

\* C18: a turn whose Run rejects ends with an error message sent in place of
\* the reply; the rejection does not leave the event handler.
C18_Step ==
    \A h \in H :
        ( /\ tasks[h].kind \in {"msg", "motivate"} /\ tasks[h].pc = "run"
          /\ tasks'[h].pc # "run" /\ ops[h].res.ok = "no" )
        => tasks'[h].pc = "errreply"
C18_TurnFailureReported == [][C18_Step]_vars

\* Activation h calls activateDMChannel in this step (251): its own message
\* was appended, it is a direct message of a user.
CallsActivate(h) ==
    /\ mq # << >> /\ Head(mq) = Microtask("c", h)
    /\ tasks[h].pc = "add" /\ tasks[h].phase = "own"
    /\ tasks[h].chan \in DMChan /\ ~ tasks[h].fromMe
    /\ ops[h].res.ok = "yes"
\* Another activation has returned from activateDMChannel for the channel
\* of h.
ReturnedBefore(h) ==
    \E g \in H : g # h /\ tasks[g].chan = tasks[h].chan /\ tasks[g].phase = "after"
\* The call is a no-op: nothing is fetched, appended or recorded and the
\* handler goes on to the response.
NoOpCall(h) ==
    /\ tasks'[h].pc = "d" /\ tasks'[h].phase = "after"
    /\ activeDMChannels' = activeDMChannels
    /\ thread' = thread

\* C13, as stated: a call of activateDMChannel for a channel for which an
\* earlier call has returned is a no-op.
C13_Step_Stated == \A h \in H : (CallsActivate(h) /\ ReturnedBefore(h)) => NoOpCall(h)
C13_Step ==
    \A h \in H :
        ( /\ CallsActivate(h) /\ ReturnedBefore(h)
          /\ Includes(activeDMChannels, tasks[h].chan) )
        => NoOpCall(h)
C14_ActivatedOnce ==
    /\ \A c \in DMChan :
          Cardinality({i \in 1 .. Len(activeDMChannels) : activeDMChannels[i] = c}) <= 1
    /\ \A k \in Key : \A i, j \in 1 .. Len(thread[k]) :
          (i # j /\ thread[k][i].src = "hist") => thread[k][i] # thread[k][j]

\* C19: for a direct message of a user, the messages of the replayed
\* history are in the conversation before the message itself.
C19_ReplayBeforeAppend ==
    \A h \in H : \A k \in Key : \A i, j \in 1 .. Len(thread[k]) :
        ( /\ tasks[h].chan \in DMChan /\ ~ tasks[h].fromMe
          /\ thread[k][i] = Own(h)
          /\ thread[k][j].src = "hist" )
        => j < i

\* C20: one broadcast of the Brainteaser of the Day sends exactly one post
\* to every channel subscribed when it starts sending and none to any other
\* channel, however often the channel was subscribed.
C20_OnePostEach ==
    \A h \in H : \A c \in Chan :
        /\ Posts(h, c) <= 1
        /\ ~ Includes(broadcast[h].snap, c) => Posts(h, c) = 0
        /\ ( /\ broadcast[h].st = "sending"
             /\ broadcast[h].fetched = 1 .. Len(broadcast[h].snap)
             /\ Includes(broadcast[h].snap, c) ) => Posts(h, c) = 1

\* C21: when the selection finds no unused brainteaser the broadcast does
\* not fail: the function returns, the error text is what is posted, one
\* fetch is issued for every subscribed channel, and the database is left as
\* it was (no botd row is recorded).
C21_Step ==
    \A h \in H :
        ( /\ tasks[h].pc = "select" /\ tasks'[h].pc # "select"
          /\ Unused(db) = {} )
        => /\ tasks'[h].pc = "done"
           /\ broadcast'[h].st = "sending"
           /\ broadcast'[h].text = "error"
           /\ broadcast'[h].snap = subscriberChannels
           /\ db' = db
C21_BroadcastSurvives == [][C21_Step]_vars

\* C21 witness: with no unused brainteaser, the error text has been posted
\* to every subscribed channel and no botd row was added.
C21_Witness ==
    \E h \in H :
        /\ broadcast[h].st = "sending" /\ broadcast[h].text = "error"
        /\ db.botd = Db(0).botd /\ db.used = Db(0).used /\ faults = 0
        /\ broadcast[h].snap # << >>
        /\ broadcast[h].fetched = 1 .. Len(broadcast[h].snap)
        /\ \A c \in Chan : Includes(subscriberChannels, c) => Posts(h, c) >= 1

\* The reaction of kind t for h is in the microtask queue, once.
Scheduled(t, h) ==
    /\ \E i \in 1 .. Len(mq) : mq[i] = Microtask(t, h)
    /\ \A i, j \in 1 .. Len(mq) :
          (mq[i] = Microtask(t, h) /\ mq[j] = Microtask(t, h)) => i = j

\* Operation h is in the operation list of key k.
Queued(k, h) == \E i \in 1 .. Len(operationQueue[k]) : operationQueue[k][i] = h

\* The list of every key holds operations waiting for their first start,
\* each once (llm.ts:31 shifts an operation out before it is called).
ListHoldsWaiting ==
    /\ \A k \in Key :
          \A i \in 1 .. Len(operationQueue[k]) :
              /\ ops[operationQueue[k][i]].st = "queued"
              /\ ops[operationQueue[k][i]].key = k
              /\ \A j \in 1 .. Len(operationQueue[k]) :
                    operationQueue[k][j] = operationQueue[k][i] => j = i
    /\ \A h \in H : ops[h].st = "queued" => Queued(ops[h].key, h)

\* C22: every enqueued operation is executed at most once (it starts only
\* from the head of the list or at its enqueue, never after it ran), its
\* caller's promise is settled exactly once, in the step in which the
\* operation itself ends and with the outcome written in that step, and an
\* operation that has started, failed or not, is no longer in the list and
\* is not started again.
C22_Step ==
    /\ ListHoldsWaiting'
    /\ \A h \in H :
        /\ ops'[h].st = "exec" /\ ops[h].st # "exec"
            => /\ ops[h].st \in {"queued", "idle"}
               /\ ops[h].st = "queued" => /\ ops'[h].eno = ops[h].eno
                                          /\ ops'[h].kind = ops[h].kind
                                          /\ Head(operationQueue[ops[h].key]) = h
               /\ \A k \in Key : ~ Queued(k, h)'
        /\ ops[h].st = "done"
            => /\ ops'[h].st \in {"done", "idle"}
               /\ ops'[h].st = "done" => ops'[h] = ops[h]
        /\ ops[h].st = "exec" => ops'[h].st \in {"exec", "done"}
        /\ ops[h].st = "queued" => ops'[h].st \in {"queued", "exec"}
        /\ ( ops[h].st = "exec" /\ ops'[h].st = "done" )
            => /\ Scheduled("r1", h)'
               /\ ops'[h].res.ok \in {"yes", "no"}
               /\ \A g \in H \ {h} : ops'[g] = ops[g]
        /\ ( Scheduled("r1", h)' /\ ~ Scheduled("r1", h) )
            => ops[h].st = "exec" /\ ops'[h].st = "done"
        /\ ops'[h].st # "done"
            => \A i \in 1 .. Len(mq') : mq'[i] # Microtask("r1", h)
C22_AtMostOnce == [][C22_Step]_vars

\* C22 witness: an operation failed and its caller consumed the rejection,
\* and an operation enqueued later for the same key has run and succeeded.
C22_Witness ==
    \E h, g \in H :
        /\ h # g
        /\ tasks[h].pc = "rejected" /\ ops[h].st = "idle"
        /\ tasks[h].thr # 0 /\ tasks[h].thr = ops[g].key
        /\ ops[g].st = "done" /\ ops[g].res.ok = "yes"
        /\ ops[g].eno > 1
        /\ faults = 1

\* C23: a failure of createThread rejects the attempt that called it and
\* nothing else: the channel-to-thread map, every operation, every list,
\* every thread and every other activation are as before; and an
\* activation that then finds no handle for its channel calls createThread.
C23_Step ==
    \A h \in H :
        /\ ( tasks[h].pc = "createThread" /\ tasks'[h].pc = "rejected" )
            => /\ threadIds' = threadIds
               /\ ops' = ops /\ operationQueue' = operationQueue /\ enq' = enq
               /\ processingPromise' = processingPromise
               /\ thread' = thread /\ mq' = mq
               /\ \A g \in H \ {h} : tasks'[g] = tasks[g]
        /\ ( tasks[h].kind = "none" /\ tasks'[h].kind = "msg"
             /\ tasks'[h].pc # "ignored" /\ threadIds[tasks'[h].chan] = 0 )
            => tasks'[h].pc = "createThread"
C23_AllocationFailureIsolated == [][C23_Step]_vars

\* C23 witness: the first attempt for a channel failed in createThread and a
\* later attempt for the same channel allocated the thread.
C23_Witness ==
    \E h, g \in H :
        /\ h < g
        /\ tasks[h].pc = "rejected" /\ tasks[h].alloc /\ tasks[h].thr = 0
        /\ tasks[g].chan = tasks[h].chan /\ tasks[g].alloc
        /\ threadIds[tasks[g].chan] = g

\* Activation h's Run takes part in the step: it is requested, started,
\* advanced, settled or delivered to its caller.
RunStep(h) ==
    /\ ops[h].kind = "run" \/ ops'[h].kind = "run"
    /\ ops'[h] # ops[h] \/ tasks'[h] # tasks[h]

\* C24: no step of a Run, from its request to the delivery of its text to
\* the caller, changes the channel-to-thread map, the activated DM channels
\* or the subscribed channels.
C24_Step ==
    \A h \in H :
        RunStep(h) => /\ threadIds' = threadIds
                      /\ activeDMChannels' = activeDMChannels
                      /\ subscriberChannels' = subscriberChannels
C24_RunLeavesMaps == [][C24_Step]_vars

\* C24 witness: a Run went through a tool cycle, completed, and its text
\* was delivered to the handler of the message.
C24_Witness ==
    \E h \in H :
        /\ tasks[h].kind = "msg" /\ tasks[h].pc = "done" /\ ~ tasks[h].fromMe
        /\ cycles = MaxCycles /\ nh = MaxHandlers
        /\ threadIds[tasks[h].chan] = tasks[h].thr /\ tasks[h].thr # 0
        /\ Latest(tasks[h].thr) = [src |-> "run", h |-> h, type |-> "text", role |-> "assistant"]

\* C25: submitToolOutputs is in flight only with every handler of the cycle
\* settled and with one output per call of the cycle, in the order of the
\* calls; while a handler is pending no batch exists.
C25_SubmitAfterAllSettled ==
    \A h \in H :
        /\ Executing(h, "submit")
            => /\ Len(ops[h].results) = Len(ops[h].calls)
               /\ \A i \in 1 .. Len(ops[h].results) : ops[h].results[i] # "pending"
               /\ Len(ops[h].batch) = Len(ops[h].calls)
               /\ \A i \in 1 .. Len(ops[h].calls) :
                      ops[h].batch[i].tool_call_id = ops[h].calls[i].id
        /\ Executing(h, "tools")
            => /\ ops[h].batch = << >>
               /\ \E i \in 1 .. Len(ops[h].results) : ops[h].results[i] = "pending"

\* C25 witness: a cycle of MaxCalls calls whose handlers all awaited; every
\* one has settled, the first of them by raising, and the batch is being
\* submitted.
C25_Witness ==
    \E h \in H :
        /\ Executing(h, "submit")
        /\ Len(ops[h].calls) = MaxCalls
        /\ \A i \in 1 .. MaxCalls : ops[h].calls[i].name = "getLeaderboard"
        /\ ops[h].results[1] = "HandlerError"
        /\ \A i \in 2 .. MaxCalls : ops[h].results[i] = "ok"

\* C26, as stated: over the life of a Run the handler of each tool call of
\* a cycle is invoked exactly once.
C26_InvokedOnce ==
    \A h \in H :
        \A i \in 1 .. Len(ops[h].invoked) : ops[h].invoked[i] = 1

\* Activation h's Run is being polled: runs.create has returned and the
\* operation has not settled.
Polling(h) ==
    ops[h].st = "exec" /\ ops[h].kind = "run" /\ ops[h].pc # "runs.create"

\* C27: in steps in which no external call raises, a poll that observes
\* queued or in_progress leaves the operation unsettled and asleep, and the
\* sleep is followed by the next poll; a poll that observes requires_action
\* leaves it unsettled, servicing the tool calls, and the submission is
\* followed by the next poll; the operation settles only with completed,
\* failed, incomplete or an unrecognised status observed, and resolves only
\* after completed.
C27_Step ==
    \A h \in H :
        ( Polling(h) /\ faults' = faults ) =>
            /\ ( ops[h].pc = "retrieve" /\ ops'[h].status \in Transient
                 /\ ops'[h] # ops[h] )
                => /\ ops'[h].st = "exec" /\ ops'[h].pc = "sleep"
                   /\ mq' = << >>
            /\ ops[h].pc = "sleep"
                => /\ ops'[h].st = "exec"
                   /\ ops'[h].pc \in {"sleep", "retrieve"}
            /\ ( ops[h].pc = "retrieve" /\ ops'[h].status = "requires_action"
                 /\ ops'[h] # ops[h] )
                => /\ ops'[h].st = "exec" /\ ops'[h].pc \in {"tools", "submit"}
                   /\ mq' = << >>
            /\ ops[h].pc \in {"tools", "submit"}
                => /\ ops'[h].st = "exec"
                   /\ ops[h].pc = "submit" /\ ops'[h] # ops[h]
                        => ops'[h].pc = "retrieve"
            /\ ops'[h].st = "done"
                => /\ ops'[h].status \in Ended
                   /\ ops[h].pc \in {"retrieve", "list"}
                   /\ ops'[h].res.ok = "yes"
                        => ops'[h].status = "completed" /\ ops[h].pc = "list"
C28_RunSettles ==
    /\ \A h \in H : (ops[h].kind = "run" /\ ops[h].st = "exec")
                        ~> (ops[h].kind = "run" /\ ops[h].st = "done")
    /\ \A k \in Key : (processingPromise[k] # "null") ~> (processingPromise[k] = "null")

\* C28 witness: a Run was observed queued or in progress, went through a
\* tool cycle and completed, an external call having raised on the way; its
\* caller has resumed and the processing promise of its key is cleared.
C28_Witness ==
    \E h \in H :
        /\ tasks[h].pc \in {"done", "rejected"} /\ tasks[h].phase = "own"
        /\ tasks[h].thr # 0 /\ processingPromise[tasks[h].thr] = "null"
        /\ polls = MaxPolls /\ cycles = MaxCycles /\ faults = MaxFaults
        /\ Len(thread[tasks[h].thr]) = 2

\* Message m is in the thread of handle k.
InThread(k, m) == \E i \in 1 .. Len(thread[k]) : thread[k][i] = m

\* C29: a replay (of activateDMChannel or of startup) appends the fetched
\* history oldest first: its j-th append adds the message of age rank j;
\* the next append is issued only when the one before has completed and its
\* message is in the thread it was sent to; and a channel is recorded as
\* activated only when its history was empty or the append of the last
\* replayed message has completed.  Each append goes to the thread the
\* channel maps to when the append is issued.
C29_Step ==
    /\ \A h \in H :
        /\ ( tasks[h].phase = "replay" /\ ops[h].st = "exec"
             /\ ops[h].pc = "messages.create"
             /\ ops'[h].st = "done" /\ ops'[h].res.ok = "yes" )
            => thread'[ops[h].key] =
                  Append(thread[ops[h].key], Item(h, tasks[h].hist - tasks[h].left + 1))
        /\ ( tasks[h].phase = "replay" /\ tasks'[h].phase = "replay"
             /\ tasks'[h].left # tasks[h].left )
            => /\ tasks'[h].left = tasks[h].left - 1
               /\ ops[h].st = "done" /\ ops[h].res.ok = "yes"
               /\ InThread(tasks[h].thr, Item(h, tasks[h].hist - tasks[h].left + 1))
        /\ ( tasks[h].phase # "replay" /\ tasks'[h].phase = "replay" )
            => /\ tasks'[h].left = tasks'[h].hist
               /\ ops[h].st = "idle"
    /\ activeDMChannels' # activeDMChannels
        => \E h \in H :
              /\ tasks[h].kind = "msg" /\ tasks[h].chan \in DMChan
              /\ activeDMChannels' = Append(activeDMChannels, tasks[h].chan)
              /\ \/ tasks[h].pc = "history" /\ tasks'[h].hist = 0
                 \/ /\ tasks[h].phase = "replay" /\ tasks[h].left = 1
                    /\ ops[h].st = "done" /\ ops[h].res.ok = "yes"
                    /\ InThread(tasks[h].thr, Item(h, tasks[h].hist))
C29_ReplayOldestFirst == [][C29_Step]_vars

\* C29 witness: the startup replay of c1 and the activation of d1 have both
\* replayed a history of MaxHist messages, oldest first, and d1 is recorded.
C29_Witness ==
    /\ IsActive("d1")
    /\ threadIds["c1"] # 0 /\ threadIds["d1"] # 0
    /\ thread[threadIds["c1"]] = [j \in 1 .. MaxHist |-> Hist(j)]
    /\ Len(thread[threadIds["d1"]]) >= MaxHist + 1
    /\ \A j \in 1 .. MaxHist - 1 : thread[threadIds["d1"]][j + 1] = Hist(j)
    /\ thread[threadIds["d1"]][MaxHist + 1].src = "chat"
    /\ \E h \in H : tasks[h].kind = "init" /\ tasks[h].pc = "done"

\* C30: a Run is requested and enqueued for the message of an event only
\* with that message in a thread, put there by its own successful append;
\* a handler whose append failed ends rejected with no Run requested, then
\* or later.
C30_Step ==
    \A h \in H :
        tasks[h].kind = "msg" =>
            /\ ( tasks'[h].pc = "d" /\ tasks[h].pc # "d" )
                => \E k \in Key : InThread(k, Own(h))
            /\ ( ops'[h].kind = "run" /\ ops[h].kind # "run" )
                => /\ \E k \in Key : InThread(k, Own(h))
                   /\ ~ tasks[h].fromMe
            /\ ( tasks[h].pc = "add" /\ tasks[h].phase = "own"
                 /\ ops[h].st = "done" /\ ops[h].res.ok = "no"
                 /\ tasks'[h] # tasks[h] )
                => /\ tasks'[h].pc = "rejected"
                   /\ ops'[h].kind # "run"
            /\ tasks[h].pc = "rejected"
                => /\ tasks'[h] = tasks[h]
                   /\ ops'[h].kind # "run"
C30_RunAfterOwnAppend == [][C30_Step]_vars

\* C30 witness: of two messages of users, one of a DM channel and one of a
\* subscribed channel, one was appended and its Run is enqueued, while the
\* append of the other failed and its handler ended without a Run.
C30_Witness ==
    \E h, g \in H :
        /\ tasks[h].kind = "msg" /\ tasks[g].kind = "msg"
        /\ ~ tasks[h].fromMe /\ ~ tasks[g].fromMe
        /\ {tasks[h].chan, tasks[g].chan} = {"d1", "c1"}
        /\ tasks[h].pc = "run" /\ ops[h].kind = "run"
        /\ InThread(ops[h].key, Own(h))
        /\ tasks[g].pc = "rejected" /\ tasks[g].thr # 0
        /\ \A k \in Key : ~ InThread(k, Own(g))

\* C32, as stated: while an append is executing on a thread, no Run of that
\* thread is in flight (submitted and not ended).
C32_NoAppendDuringRun ==
    \A h, g \in H :
        ( ops[h].st = "exec" /\ ops[h].kind = "add" /\ ops[g].key = ops[h].key )
            => ops[g].status \notin InFlight

\* C33, as stated: no message is in the conversations more than once.
C33_AppendedOnce ==
    \A k, l \in Key : \A i \in 1 .. Len(thread[k]), j \in 1 .. Len(thread[l]) :
        ( thread[k][i] = thread[l][j] /\ thread[k][i].src \in {"chat", "hist"} )
            => ( k = l /\ i = j )

\* C34, as stated: of two messages of one channel, the one whose event
\* arrived first is appended first; handles are given in arrival order, and
\* no call has failed.
C34_ArrivalOrder ==
    \A g, h \in H :
        ( /\ g < h /\ faults = 0
          /\ tasks[g].kind = "msg" /\ tasks[h].kind = "msg"
          /\ tasks[g].chan = tasks[h].chan
          /\ tasks[g].pc # "ignored"
          /\ \E k \in Key : InThread(k, Own(h)) )
            => \E k \in Key : InThread(k, Own(g))

\* C36, as stated: a step of a direct message's activation at which the
\* replay of the history fails (the fetch of the messages, or the reaction
\* to a failed append) does not record the channel as activated and leaves
\* the handler running.
C36_Step ==
    \A h \in H :
        ( /\ tasks[h].kind = "msg"
          /\ \/ tasks[h].pc = "history" /\ tasks'[h].pc # "history" /\ faults' # faults
             \/ /\ tasks[h].pc = "add" /\ tasks[h].phase = "replay"
                /\ tasks'[h].phase # "replay" /\ ops[h].res.ok = "no" )
        => /\ activeDMChannels' = activeDMChannels
           /\ tasks'[h].pc # "rejected"
C36_ReplayFailureContained == [][C36_Step]_vars

\* C37: a message written by the bot itself, live or in a replayed history,
\* is in the conversation with the assistant role, and its handler never
\* fetches a history, replays one, or asks for a Run.
C37_OwnMessagesAssistantOnly ==
    /\ \A k \in Key : \A i \in 1 .. Len(thread[k]) :
          LET m == thread[k][i]
          IN  /\ ( m.src = "chat" /\ tasks[m.h].fromMe ) => m.role = "assistant"
              /\ ( m.src = "hist" /\ HistFromMe(m.h) ) => m.role = "assistant"
    /\ \A h \in H :
          ( tasks[h].kind = "msg" /\ tasks[h].fromMe )
              => /\ tasks[h].pc \notin {"history", "d", "run"}
                 /\ tasks[h].phase = "own"
                 /\ ops[h].kind # "run"

\* C37 witness: a message of the bot in the direct-message channel has been
\* appended with the assistant role and its handler has returned; the
\* channel is not activated.
C37_Witness ==
    \E h \in H :
        /\ tasks[h].kind = "msg" /\ tasks[h].fromMe /\ tasks[h].chan \in DMChan
        /\ tasks[h].pc = "done"
        /\ InThread(tasks[h].thr, Own(h))
        /\ Own(h).role = "assistant"
        /\ ~ IsActive(tasks[h].chan)

\* C40: every key has at most one drain loop at any instant; an enqueue
\* that finds a drain loop of its key starts none; and the processing
\* promise of a key is cleared only when no drain loop of the key runs.
C40_Step ==
    \A k \in Key :
        /\ workers[k] <= 1 /\ workers'[k] <= 1
        /\ ( enq'[k] # enq[k] /\ workers[k] >= 1 ) => workers'[k] = workers[k]
        /\ ( processingPromise[k] # "null" /\ processingPromise'[k] = "null" )
              => workers[k] = 0 /\ workers'[k] = 0
        /\ workers[k] = 1 => processingPromise[k] = "pending"
C40_OneDrainWorker == [][C40_Step]_vars

\* C40 witness: an operation was enqueued while the drain loop of its key
\* ran; it waits in the list, the key has one drain loop, and an earlier
\* drain loop of another key has returned and its promise was cleared.
C40_Witness ==
    \E k, j \in Key :
        /\ k # j
        /\ enq[k] >= 2 /\ operationQueue[k] # << >>
        /\ workers[k] = 1 /\ processingPromise[k] = "pending"
        /\ enq[j] >= 1 /\ workers[j] = 0 /\ processingPromise[j] = "null"

\* A '/subscribe' or '/unsubscribe' command is in flight.
CommandInFlight ==
    \E h \in H : /\ tasks[h].kind \in {"subscribe", "unsubscribe"}
                 /\ tasks[h].pc \in {"defer", "upsert", "applied"}

\* C31, as stated: whenever no subscription command is in flight, a channel
\* is in subscriberChannels if and only if its persisted subscribed flag is
\* true.
C31_MemoryMatchesDb ==
    ~ CommandInFlight =>
        \A c \in Chan : Includes(subscriberChannels, c) <=> c \in db.sub

\* C35: a step in which the upsert of a '/subscribe' or '/unsubscribe'
\* command fails leaves subscriberChannels as it was and takes the handler
\* to its error reply; subscriberChannels changes only in the step in which
\* a handler resumes from an upsert that succeeded.
C35_Step ==
    /\ \A h \in H :
          ( tasks[h].pc = "upsert" /\ tasks'[h].pc \notin {"upsert", "applied"} )
              => /\ subscriberChannels' = subscriberChannels
                 /\ tasks'[h].pc = "errreply"
                 /\ db' = db
    /\ subscriberChannels' # subscriberChannels
          => \E h \in H : tasks[h].pc = "applied" /\ tasks'[h].pc = "done"
C35_UpsertFailureKeepsSet == [][C35_Step]_vars

\* C35 witness: a '/subscribe' for a channel that is not subscribed failed
\* at the upsert; the handler is at its error reply, the channel is neither
\* in subscriberChannels nor flagged in the database.
C35_Witness ==
    \E h \in H :
        /\ tasks[h].kind = "subscribe" /\ tasks[h].pc = "errreply"
        /\ ~ Includes(subscriberChannels, tasks[h].chan)
        /\ tasks[h].chan \notin db.sub
        /\ faults = 1

\* A selection of the Brainteaser of the Day is between its statements.
SelectionInFlight == \E h \in H : tasks[h].pc \in {"insert", "update"}

\* C39, as stated: with no selection in flight and no statement failed, no
\* two rows of botd refer to the same brainteaser, and the brainteaser of
\* every row of botd carries the id of that row in used_for_botd.
C39_SelectedOnce ==
    ( ~ SelectionInFlight /\ faults = 0 ) =>
        \A i \in 1 .. Len(db.botd) :
            /\ db.botd[i] \in Teaser
            /\ db.used[db.botd[i]] = i
            /\ \A j \in 1 .. Len(db.botd) : db.botd[j] = db.botd[i] => j = i

\* C38: the handler of a message of a channel that is neither a
\* direct-message channel nor in subscriberChannels returns at once: no
\* thread is allocated, nothing is enqueued or appended, and the handler
\* never acts later; and the step in which an '/unsubscribe' resumes from
\* its upsert leaves no entry of the channel in subscriberChannels, so
\* that later messages of the channel are ignored in this way.
C38_Step ==
    /\ \A h \in H :
          ( /\ tasks[h].kind = "none" /\ tasks'[h].kind = "msg"
            /\ tasks'[h].chan \notin DMChan
            /\ ~ Includes(subscriberChannels, tasks'[h].chan) )
          => /\ tasks'[h].pc = "ignored"
             /\ threadIds' = threadIds /\ thread' = thread
             /\ ops' = ops /\ operationQueue' = operationQueue /\ enq' = enq
    /\ \A h \in H :
          tasks[h].pc = "ignored" => tasks'[h] = tasks[h] /\ ops'[h] = ops[h]
    /\ \A h \in H :
          ( /\ tasks[h].kind = "unsubscribe"
            /\ tasks[h].pc = "applied" /\ tasks'[h].pc = "done" )
          => ~ Includes(subscriberChannels', tasks[h].chan)
C38_UnsubscribedIgnored == [][C38_Step]_vars

\* C38 witness: '/unsubscribe' succeeded for c1, which was subscribed, and
\* the message of c1 that came later was ignored: c1 has no thread.
C38_Witness ==
    \E g, h \in H :
        /\ g < h
        /\ tasks[g].kind = "unsubscribe" /\ tasks[g].chan = "c1" /\ tasks[g].pc = "done"
        /\ tasks[h].kind = "msg" /\ tasks[h].chan = "c1" /\ tasks[h].pc = "ignored"
        /\ ops[h] = NoOp
        /\ threadIds["c1"] = 0

====
